---- MODULE Spec2Model ----
(***************************************************************************)
(* Distressed-property pipeline: the SQLite store (pipeline/db.py), the    *)
(* address normalizer (pipeline/normalize.py), the scorer                  *)
(* (pipeline/scoring.py) and the ingestion run (pipeline/run.py).          *)
(*                                                                         *)
(* Two specifications share the store:                                     *)
(*   Spec      - a client calling the db.py helpers in any order on one    *)
(*               connection (the store as a library);                      *)
(*   RunSpec   - pipeline.run.main executed MaxRuns times over a remote    *)
(*               data set that does not change; FairRunSpec adds the       *)
(*               progress of the sequential Python process.                *)
(*                                                                         *)
(* Conventions.  A nullable text column holds a string or NULL; a nullable *)
(* number is None (<<>>) or Some(n) (<<n>>).  A street address is the      *)
(* sequence of its whitespace-separated tokens, and NoAddress (<<>>) is    *)
(* Python's None or "", which `not raw_addr` treats alike.  Times are      *)
(* whole seconds.  A score is the integer numerator of a fraction over     *)
(* ScoreDen, so that the decay and the status multipliers stay exact.      *)
(***************************************************************************)
EXTENDS Integers, Sequences, FiniteSets, TLC

VARIABLES
    properties,            \* rows of table properties
    signals,               \* rows of table signals
    normalization_issues,  \* rows of table normalization_issues
    pipeline_runs,         \* rows of table pipeline_runs
    sqlite_sequence,       \* AUTOINCREMENT high-water mark of each table
    last_insert_rowid,     \* sqlite3_last_insert_rowid() of the connection
    clock,                 \* datetime.now(timezone.utc), in seconds
    last,                  \* the last db.py call: operation, arguments, outcome
    remote,                \* what each remote source serves (fixed over a behaviour)
    pc,                    \* position of main()
    run_no,                \* number of main() invocations started so far
    run_id,                \* main: run_id
    src_idx,               \* main: index into sources of the fetcher being run
    offset,                \* SODAFetcher.paginate: offset
    fetcher_counts,        \* run_fetcher: props_touched, signals_inserted, skipped
    totals,                \* main: total_props, total_sigs
    origin,                \* ghost: signal id -> raw address of the record it came from
    run_log                \* ghost: per run, what happened (errors, attempts, snapshot)

vars == <<properties, signals, normalization_issues, pipeline_runs, sqlite_sequence,
          last_insert_rowid, clock, last, remote, pc, run_no, run_id, src_idx, offset,
          fetcher_counts, totals, origin, run_log>>

storeVars == <<properties, signals, normalization_issues, pipeline_runs,
               sqlite_sequence, last_insert_rowid>>
runVars == <<remote, pc, run_no, run_id, src_idx, offset, fetcher_counts, totals,
             origin, run_log>>

NULL == "NULL"
None == <<>>
Some(n) == <<n>>
NoAddress == <<>>

\* a statement `x = e` followed by the statements F that read x: e is
\* evaluated once, and F sees its value
Bind(e, F(_)) == CHOOSE out \in {F(x) : x \in {e}} : TRUE

(***************************************************************************)
(* Bounds of the model.                                                    *)
(***************************************************************************)
MaxCalls == 4             \* db.py calls a client makes (Spec)
MaxRecords == 3           \* records the first remote source holds (RunSpec)
MaxRuns == 2              \* invocations of main() (RunSpec)
PageSize == 2             \* stands for SODA_PAGE_SIZE (1000) at model scale
MaxTokens == 3            \* words of a raw address (NormSpec)
BatchSize == 2            \* stands for the batches of 500 parcels at model scale
MaxParcels == 4           \* parcels of West Seattle (KcSpec)

(***************************************************************************)
(* pipeline/normalize.py, on token sequences.                              *)
(***************************************************************************)
\* str.upper() on the tokens of the vocabulary
Upper(tok) ==
    CASE tok = "spokane" -> "SPOKANE"
      [] tok = "sw"      -> "SW"
      [] tok = "st"      -> "ST"
      [] tok = "street"  -> "STREET"
      [] tok = "seattle" -> "SEATTLE"
      [] tok = "wa"      -> "WA"
      [] OTHER           -> tok

\* _DIRECTIONALS: the keys made of two words
DirPair(a, b) ==
    CASE a \in {"SOUTH", "S"} /\ b = "WEST" -> "SW"
      [] a \in {"NORTH", "N"} /\ b = "WEST" -> "NW"
      [] a \in {"SOUTH", "S"} /\ b = "EAST" -> "SE"
      [] a \in {"NORTH", "N"} /\ b = "EAST" -> "NE"
      [] OTHER -> NULL

\* _DIRECTIONALS: the keys made of one word
DirWord(tok) ==
    CASE tok \in {"SOUTHWEST", "S.W.", "S.W"} -> "SW"
      [] tok \in {"NORTHWEST", "N.W.", "N.W"} -> "NW"
      [] tok \in {"SOUTHEAST", "S.E.", "S.E"} -> "SE"
      [] tok \in {"NORTHEAST", "N.E.", "N.E"} -> "NE"
      [] tok = "SOUTH" -> "S"
      [] tok = "NORTH" -> "N"
      [] tok = "EAST"  -> "E"
      [] tok = "WEST"  -> "W"
      [] OTHER -> NULL

\* _SINGLE_DIR_PATTERN: "S." -> "S"
SingleDir(tok) ==
    CASE tok = "S." -> "S"
      [] tok = "N." -> "N"
      [] tok = "E." -> "E"
      [] tok = "W." -> "W"
      [] OTHER -> tok

\* _SUFFIXES, a trailing period tolerated
Suffix(tok) ==
    CASE tok \in {"STREET", "STR", "ST."}    -> "ST"
      [] tok \in {"AVENUE", "AVE.", "AV"}    -> "AVE"
      [] tok \in {"DRIVE", "DR."}            -> "DR"
      [] tok \in {"BOULEVARD", "BLVD."}      -> "BLVD"
      [] tok \in {"PLACE", "PL."}            -> "PL"
      [] tok \in {"COURT", "CT."}            -> "CT"
      [] tok \in {"LANE", "LN."}             -> "LN"
      [] tok \in {"ROAD", "RD."}             -> "RD"
      [] tok \in {"CIRCLE", "CIR."}          -> "CIR"
      [] tok \in {"TERRACE", "TER."}         -> "TER"
      [] tok \in {"PARKWAY", "PKWY."}        -> "PKWY"
      [] OTHER -> tok

\* _ORDINAL_WORDS
Ordinal(tok) ==
    CASE tok = "FIRST"   -> "1ST"
      [] tok = "SECOND"  -> "2ND"
      [] tok = "THIRD"   -> "3RD"
      [] tok = "FOURTH"  -> "4TH"
      [] tok = "FIFTH"   -> "5TH"
      [] tok = "SIXTH"   -> "6TH"
      [] tok = "SEVENTH" -> "7TH"
      [] tok = "EIGHTH"  -> "8TH"
      [] tok = "NINTH"   -> "9TH"
      [] tok = "TENTH"   -> "10TH"
      [] OTHER -> tok

\* the tokens of the vocabulary that \d+ matches, and those \d{5} matches
NumberTokens == {"1", "100", "789", "4000", "5812", "98106", "98107"}
ZipTokens == {"98106", "98107"}
\* the unit designators of _UNIT_PATTERN that are a token of their own
UnitWords == {"UNIT", "APT", "SUITE", "STE", "BLDG", "BUILDING", "FLOOR", "FL", "RM", "ROOM"}
\* tokens of the vocabulary that only begin with a unit designator
UnitPrefixed == {"STEVENS", "FLOWER"}
\* tokens of the vocabulary that "#\s*\w+" removes
HashTokens == {"#201"}

\* a substitution that rewrites single words, applied to every word
UpperAll(s) == [i \in 1..Len(s) |-> Upper(s[i])]
SingleDirAll(s) == [i \in 1..Len(s) |-> SingleDir(s[i])]
SuffixAll(s) == [i \in 1..Len(s) |-> Suffix(s[i])]
OrdinalAll(s) == [i \in 1..Len(s) |-> Ordinal(s[i])]

DropLast(s) == SubSeq(s, 1, Len(s) - 1)

\* _CITY_STATE_ZIP.sub("", addr): a 5-digit zip at the end, with the state
\* and the city before it when they are there
StripCityStateZip(s) ==
    IF s = <<>> \/ s[Len(s)] \notin ZipTokens THEN s
    ELSE LET a == DropLast(s)
             b == IF a # <<>> /\ a[Len(a)] \in {"WA", "WASHINGTON"} THEN DropLast(a) ELSE a
         IN  IF b # <<>> /\ b[Len(b)] = "SEATTLE" THEN DropLast(b) ELSE b

\* _UNIT_PATTERN.sub("", addr), "#..." and "," removal, from token i on
RECURSIVE StripUnitsFrom(_, _)
StripUnitsFrom(s, i) ==
    IF i > Len(s) THEN <<>>
    ELSE IF s[i] \in UnitWords THEN StripUnitsFrom(s, i + 2)
    ELSE IF s[i] \in UnitPrefixed \cup HashTokens \cup {","} THEN StripUnitsFrom(s, i + 1)
    ELSE <<s[i]>> \o StripUnitsFrom(s, i + 1)

StripUnits(s) == StripUnitsFrom(s, 1)

\* _DIR_PATTERN.sub(...), from token i on: leftmost match, the longest key
\* first
RECURSIVE DirectionalsFrom(_, _)
DirectionalsFrom(s, i) ==
    IF i > Len(s) THEN <<>>
    ELSE IF i < Len(s) /\ DirPair(s[i], s[i + 1]) # NULL
         THEN <<DirPair(s[i], s[i + 1])>> \o DirectionalsFrom(s, i + 2)
    ELSE IF DirWord(s[i]) # NULL
         THEN <<DirWord(s[i])>> \o DirectionalsFrom(s, i + 1)
    ELSE <<s[i]>> \o DirectionalsFrom(s, i + 1)

Directionals(s) == DirectionalsFrom(s, 1)

\* _SPLIT_ORDINAL.sub(r'\1\2', addr), from token i on: "1 ST" -> "1ST"
RECURSIVE SplitOrdinalsFrom(_, _)
SplitOrdinalsFrom(s, i) ==
    IF i > Len(s) THEN <<>>
    ELSE IF i < Len(s) /\ s[i] \in NumberTokens /\ s[i + 1] \in {"ST", "ND", "RD", "TH"}
         THEN <<s[i] \o s[i + 1]>> \o SplitOrdinalsFrom(s, i + 2)
    ELSE <<s[i]>> \o SplitOrdinalsFrom(s, i + 1)

SplitOrdinals(s) == SplitOrdinalsFrom(s, 1)

normalize_address(raw) ==
    IF raw = NoAddress THEN NoAddress
    ELSE Bind(UpperAll(raw), LAMBDA upper :
         Bind(StripCityStateZip(upper), LAMBDA street :
         Bind(StripUnits(street), LAMBDA p1 :
         Bind(Directionals(p1), LAMBDA dirs :
         Bind(SuffixAll(SingleDirAll(dirs)), LAMBDA p3 :
         Bind(OrdinalAll(p3), LAMBDA p4 :
         SplitOrdinals(p4)))))))

(***************************************************************************)
(* pipeline/db.py: the store.                                              *)
(***************************************************************************)
\* the connection's view of the database
DB == [properties |-> properties, signals |-> signals,
       normalization_issues |-> normalization_issues,
       pipeline_runs |-> pipeline_runs, sqlite_sequence |-> sqlite_sequence,
       last_insert_rowid |-> last_insert_rowid]

SetDB(d) ==
    /\ properties' = d.properties
    /\ signals' = d.signals
    /\ normalization_issues' = d.normalization_issues
    /\ pipeline_runs' = d.pipeline_runs
    /\ sqlite_sequence' = d.sqlite_sequence
    /\ last_insert_rowid' = d.last_insert_rowid

InitDB(d) ==
    /\ properties = d.properties
    /\ signals = d.signals
    /\ normalization_issues = d.normalization_issues
    /\ pipeline_runs = d.pipeline_runs
    /\ sqlite_sequence = d.sqlite_sequence
    /\ last_insert_rowid = d.last_insert_rowid

\* init_db on a new file: four empty tables
EmptyDB == [properties |-> {}, signals |-> {}, normalization_issues |-> {},
            pipeline_runs |-> {},
            sqlite_sequence |-> [properties |-> 0, signals |-> 0,
                                 normalization_issues |-> 0, pipeline_runs |-> 0],
            last_insert_rowid |-> 0]

\* get_connection: sqlite3.connect gives a connection whose
\* last_insert_rowid is 0; the tables are those of the file
get_connection(d) == [d EXCEPT !.last_insert_rowid = 0]

\* COALESCE(excluded.x, properties.x), on a nullable number
CoalesceOverwrite(excluded, stored) == excluded
Coalesce(excluded, stored) == IF excluded # None THEN excluded ELSE stored

\* COALESCE(excluded.x, properties.x), on a nullable text
CoalesceText(excluded, stored) == IF excluded # NULL THEN excluded ELSE stored

\* CASE WHEN excluded.property_type != 'unknown' THEN excluded.property_type
\*      ELSE properties.property_type END   (NULL != 'unknown' is not true)
PropertyTypeOverwrite(excluded, stored) == excluded
PropertyTypeOnConflict(excluded, stored) ==
    IF excluded # NULL /\ excluded # "unknown" THEN excluded ELSE stored

\* address_norm TEXT UNIQUE NOT NULL: the rows an insert of norm conflicts with
NoConflict(props, address_norm) == {}
ConflictingProperty(props, address_norm) ==
    {p \in props : p.address_norm = address_norm}

\* upsert_property: [db, raised, id]
upsert_property(d, address_raw, address_norm, zip_code, lat, lng, property_type, now) ==
    LET hit == ConflictingProperty(d.properties, address_norm)
        rowid == d.sqlite_sequence.properties + 1
    IN
    IF address_norm = NoAddress
    THEN [db |-> d, raised |-> "IntegrityError", id |-> 0]
    ELSE
    LET after ==
          IF hit = {}
          THEN [d EXCEPT
                  !.properties = @ \cup
                      {[id |-> rowid, address_raw |-> address_raw,
                        address_norm |-> address_norm, zip_code |-> zip_code,
                        latitude |-> lat, longitude |-> lng,
                        property_type |-> property_type,
                        total_score |-> 0, tier |-> "C",
                        first_seen |-> now, last_updated |-> now]},
                  !.sqlite_sequence.properties = rowid,
                  !.last_insert_rowid = rowid]
          ELSE [d EXCEPT
                  !.properties =
                      {IF p \in hit
                       THEN [p EXCEPT
                               !.address_raw = IF address_raw # NoAddress
                                               THEN address_raw ELSE @,
                               !.zip_code = CoalesceText(zip_code, @),
                               !.latitude = Coalesce(lat, @),
                               !.longitude = Coalesce(lng, @),
                               !.property_type = PropertyTypeOnConflict(property_type, @),
                               !.last_updated = now]
                       ELSE p : p \in @},
                  \* the INSERT that ends in DO UPDATE still draws a rowid
                  !.sqlite_sequence.properties = rowid]
        lastrowid == after.last_insert_rowid
    IN  [db |-> after, raised |-> "none",
         id |-> IF lastrowid # 0 THEN lastrowid
                ELSE (CHOOSE p \in after.properties : p.address_norm = address_norm).id]

\* UNIQUE(source, source_record_id)
NeverUnique(sigs, source, source_record_id) == FALSE
UniqueViolation(sigs, source, source_record_id) ==
    \E s \in sigs : s.source = source /\ s.source_record_id = source_record_id

\* property_id INTEGER NOT NULL REFERENCES properties(id), PRAGMA foreign_keys=ON
ForeignKeyViolation(props, property_id) ==
    \A p \in props : p.id # property_id

\* the NOT NULL columns of signals that a caller supplies
NotNullViolation(source, source_record_id, signal_type) ==
    NULL \in {source, source_record_id, signal_type}

\* what sqlite3.IntegrityError covers
IntegrityError(d, property_id, source, source_record_id, signal_type) ==
    \/ NotNullViolation(source, source_record_id, signal_type)
    \/ UniqueViolation(d.signals, source, source_record_id)
    \/ ForeignKeyViolation(d.properties, property_id)

\* upsert_signal: [db, inserted]; it raises nothing, every IntegrityError
\* being caught
upsert_signal(d, property_id, source, source_record_id, signal_type, signal_weight, detail, event_date, now) ==
    IF IntegrityError(d, property_id, source, source_record_id, signal_type)
    THEN [db |-> d, inserted |-> FALSE]
    ELSE LET rowid == d.sqlite_sequence.signals + 1 IN
         [db |-> [d EXCEPT
                    !.signals = @ \cup
                        {[id |-> rowid, property_id |-> property_id, source |-> source,
                          source_record_id |-> source_record_id,
                          signal_type |-> signal_type, signal_weight |-> signal_weight,
                          detail |-> detail, event_date |-> event_date,
                          fetched_at |-> now]},
                    !.sqlite_sequence.signals = rowid,
                    !.last_insert_rowid = rowid],
          inserted |-> TRUE]

\* log_normalization_issue
log_normalization_issue(d, address_raw, address_norm, source, lat, lng, nearest_property_id, distance, now) ==
    LET rowid == d.sqlite_sequence.normalization_issues + 1 IN
    [d EXCEPT
       !.normalization_issues = @ \cup
           {[id |-> rowid, address_raw |-> address_raw, address_norm |-> address_norm,
             source |-> source, latitude |-> lat, longitude |-> lng,
             nearest_property_id |-> nearest_property_id,
             distance |-> distance, created_at |-> now]},
       !.sqlite_sequence.normalization_issues = rowid,
       !.last_insert_rowid = rowid]

\* start_pipeline_run: [db, id]
start_pipeline_run(d, sources, now) ==
    LET rowid == d.sqlite_sequence.pipeline_runs + 1 IN
    [db |-> [d EXCEPT
               !.pipeline_runs = @ \cup
                   {[id |-> rowid, started_at |-> now, completed_at |-> None,
                     sources |-> sources, properties_count |-> None,
                     signals_count |-> None, status |-> "running"]},
               !.sqlite_sequence.pipeline_runs = rowid,
               !.last_insert_rowid = rowid],
     id |-> rowid]

\* complete_pipeline_run
complete_pipeline_run(d, id, properties_count, signals_count, now) ==
    [d EXCEPT
       !.pipeline_runs =
           {IF r.id = id
            THEN [r EXCEPT !.completed_at = Some(now),
                           !.properties_count = Some(properties_count),
                           !.signals_count = Some(signals_count),
                           !.status = "completed"]
            ELSE r : r \in @}]

(***************************************************************************)
(* pipeline/scoring.py.  The configuration file is an input of the         *)
(* program; Config is the one the model runs with, and the numbers that    *)
(* score_property falls back to are the code's.                            *)
(***************************************************************************)
DaySeconds == 86400
MaxAgeDays == 1825
DecayBoostNum == 1
DecayBoostDen == 2
MultiSourceThreshold == 2
MultiSourcePoints == 5
TierA == 15
TierB == 8
PercentDen == 100
\* a score s is held as the integer s * ScoreDen
ScoreDen == DecayBoostDen * MaxAgeDays * PercentDen

Config ==
    [signal_weights |-> [vacant_building |-> 7, notice_of_violation |-> 5,
                         citation |-> 4, expired_permit_major |-> 3,
                         demolished |-> 6, recently_sold |-> -5],
     status_multipliers |-> [code_violations |-> [closed |-> 50, completed |-> 50]]]

\* a config with other weights, a weight of 0, and multipliers for permits
AltConfig ==
    [signal_weights |-> [vacant_building |-> 10, citation |-> 2, permit_other |-> 0,
                         expired_permit_major |-> 6],
     status_multipliers |-> [permits |-> [closed |-> 25, expired |-> 0],
                             code_violations |-> [open |-> 200]]]

\* dict.get(key, default)
Get(dict, key, default) == IF key \in DOMAIN dict THEN dict[key] ELSE default

\* str.lower().strip() on the status texts of the vocabulary
LowerStrip(text) ==
    CASE text = "CLOSED"    -> "closed"
      [] text = "COMPLETED" -> "completed"
      [] text = "OPEN"      -> "open"
      [] text = "EXPIRED"   -> "expired"
      [] text = "CANCELED"  -> "canceled"
      [] text = "NOTICE OF VIOLATION" -> "notice of violation"
      [] OTHER -> text

NoDate == [kind |-> "null", t |-> 0]
IsoDate(t) == [kind |-> "iso", t |-> t]
BadDate == [kind |-> "bad", t |-> 0]

Max(a, b) == IF a >= b THEN a ELSE b

\* the signal is left out: its date parses and is before now - max_age_days
NeverTooOld(row, now) == FALSE
TooOldADayEarly(row, now) ==
    row.event_date.kind = "iso" /\ row.event_date.t < now - (MaxAgeDays - 1) * DaySeconds
TooOld(row, now) ==
    row.event_date.kind = "iso" /\ row.event_date.t < now - MaxAgeDays * DaySeconds

\* decay_mult * (DecayBoostDen * MaxAgeDays)
DecayMult(row, now) ==
    IF row.event_date.kind = "iso"
    THEN LET age_days == (now - row.event_date.t) \div DaySeconds IN
         DecayBoostDen * MaxAgeDays + DecayBoostNum * Max(0, MaxAgeDays - age_days)
    ELSE DecayBoostDen * MaxAgeDays

\* status_mult * PercentDen; detail is the JSON text's "status", or NULL
StatusMult(row, config) ==
    IF row.detail # NULL /\ row.source \in DOMAIN config.status_multipliers
    THEN Get(config.status_multipliers[row.source], LowerStrip(row.detail), PercentDen)
    ELSE PercentDen

\* base_weight * decay_mult * status_mult, as a numerator over ScoreDen
Contribution(row, config, now) ==
    Get(config.signal_weights, row.signal_type, 1) * DecayMult(row, now)
        * StatusMult(row, config)

RECURSIVE SumContributions(_, _, _)
SumContributions(rows, config, now) ==
    IF rows = {} THEN 0
    ELSE Bind(CHOOSE r \in rows : TRUE, LAMBDA row :
         Bind(rows \ {row}, LAMBDA rest :
         Contribution(row, config, now) + SumContributions(rest, config, now)))

\* if total >= tier_a: "A" elif total >= tier_b: "B" else: "C"
TierOfAbove(total) ==
    IF total > TierA * ScoreDen THEN "A"
    ELSE IF total > TierB * ScoreDen THEN "B" ELSE "C"
TierOf(total) ==
    IF total >= TierA * ScoreDen THEN "A"
    ELSE IF total >= TierB * ScoreDen THEN "B" ELSE "C"

\* if len(sources) >= threshold
HasBonusAbove(sources) == Cardinality(sources) > MultiSourceThreshold
HasBonus(sources) == Cardinality(sources) >= MultiSourceThreshold

\* score_property: [total, tier]
score_property(d, property_id, config, now) ==
    Bind({s \in d.signals : s.property_id = property_id /\ ~TooOld(s, now)}, LAMBDA rows :
    Bind({s.source : s \in rows}, LAMBDA sources :
    Bind(SumContributions(rows, config, now), LAMBDA base :
    Bind(IF HasBonus(sources)
         THEN base + MultiSourcePoints * ScoreDen ELSE base, LAMBDA total :
    [total |-> total, tier |-> TierOf(total)]))))

\* rescore_all
RescoreAdding(d, config, now) ==
    [d EXCEPT !.properties =
        {Bind(score_property(d, p.id, config, now), LAMBDA scored :
              [p EXCEPT !.total_score = @ + scored.total, !.tier = scored.tier]) : p \in @}]
rescore_all(d, config, now) ==
    [d EXCEPT !.properties =
        {Bind(score_property(d, p.id, config, now), LAMBDA scored :
              [p EXCEPT !.total_score = scored.total, !.tier = scored.tier]) : p \in @}]

(***************************************************************************)
(* Spec: a client of pipeline/db.py and pipeline/scoring.py.               *)
(***************************************************************************)
Now0 == 2000 * DaySeconds

AddrA1 == <<"5812", "SW", "spokane", "ST">>
AddrA2 == <<"5812", "SOUTH", "WEST", "SPOKANE", "STREET", "SEATTLE", "WA", "98106">>
AddrB == <<"789", "FIRST", "AVENUE", "S.">>
AddrZipOnly == <<"SEATTLE", "WA", "98106">>
NormA == <<"5812", "SW", "SPOKANE", "ST">>
NormB == <<"789", "1ST", "AVE", "S">>

\* coordinates, in units of 0.00001 degree
\* coordinates in units of 0.00001 degree: two points 0.00005 degree apart
PointA == [lat |-> Some(4756150), lng |-> Some(-12237060)]
PointB == [lat |-> Some(4756155), lng |-> Some(-12237060)]

NoCall ==
    [op |-> "none", now |-> 0, id |-> 0, inserted |-> FALSE, raised |-> "none",
     address_raw |-> NoAddress, address_norm |-> NoAddress, zip_code |-> NULL,
     lat |-> None, lng |-> None, property_type |-> NULL,
     property_id |-> 0, source |-> NULL, source_record_id |-> NULL,
     signal_type |-> NULL]

\* the argument lists a client passes to upsert_property
PropertyArgs ==
    {[address_raw |-> AddrA1, address_norm |-> NormA, zip_code |-> "98106",
      lat |-> PointA.lat, lng |-> PointA.lng, property_type |-> "unknown"],
     [address_raw |-> AddrA2, address_norm |-> NormA, zip_code |-> NULL,
      lat |-> None, lng |-> None, property_type |-> "unknown"],
     [address_raw |-> NoAddress, address_norm |-> NormA, zip_code |-> "98116",
      lat |-> PointB.lat, lng |-> None, property_type |-> "R"],
     [address_raw |-> AddrA2, address_norm |-> NormA, zip_code |-> NULL,
      lat |-> None, lng |-> PointA.lng, property_type |-> NULL],
     [address_raw |-> AddrB, address_norm |-> NormB, zip_code |-> NULL,
      lat |-> None, lng |-> None, property_type |-> "C"],
     [address_raw |-> AddrB, address_norm |-> NormB, zip_code |-> "98106",
      lat |-> PointB.lat, lng |-> PointA.lng, property_type |-> "unknown"]}

\* the argument lists a client passes to upsert_signal
SignalKeys == {<<"code_violations", "r1">>, <<"permits", "r1">>}
SignalTypes == {"vacant_building", "citation"}

RunStateUnchanged == UNCHANGED runVars

\* a client's calls are a second apart, so that every call has its own now
CallAt(now) ==
    /\ clock < Now0 + MaxCalls
    /\ now = clock
    /\ clock' = clock + 1

UpsertProperty(a) ==
    /\ CallAt(clock)
    /\ LET r == upsert_property(DB, a.address_raw, a.address_norm, a.zip_code,
                                a.lat, a.lng, a.property_type, clock)
       IN  /\ SetDB(r.db)
           /\ last' = [NoCall EXCEPT !.op = "upsert_property", !.now = clock,
                          !.id = r.id, !.raised = r.raised,
                          !.address_raw = a.address_raw,
                          !.address_norm = a.address_norm, !.zip_code = a.zip_code,
                          !.lat = a.lat, !.lng = a.lng,
                          !.property_type = a.property_type]
    /\ RunStateUnchanged

UpsertSignal(property_id, key, signal_type) ==
    /\ CallAt(clock)
    /\ LET r == upsert_signal(DB, property_id, key[1], key[2], signal_type, 0,
                              "OPEN", IsoDate(clock), clock)
       IN  /\ SetDB(r.db)
           /\ last' = [NoCall EXCEPT !.op = "upsert_signal", !.now = clock,
                          !.inserted = r.inserted, !.property_id = property_id,
                          !.source = key[1], !.source_record_id = key[2],
                          !.signal_type = signal_type]
    /\ RunStateUnchanged

StartPipelineRun ==
    /\ CallAt(clock)
    /\ LET r == start_pipeline_run(DB, <<"code_violations">>, clock)
       IN  /\ SetDB(r.db)
           /\ last' = [NoCall EXCEPT !.op = "start_pipeline_run", !.now = clock,
                          !.id = r.id]
    /\ RunStateUnchanged

\* the process ends and a later one opens the same file
GetConnection ==
    /\ last_insert_rowid # 0
    /\ SetDB(get_connection(DB))
    /\ last' = [NoCall EXCEPT !.op = "get_connection", !.now = clock]
    /\ UNCHANGED clock
    /\ RunStateUnchanged

\* the property ids a client passes: every stored one, and one that is not stored
PropertyIds == {p.id : p \in properties} \cup {sqlite_sequence.properties + 1}

NoFeeds == [records |-> <<>>, fail_at |-> -1]

Init ==
    /\ InitDB(EmptyDB)
    /\ clock = Now0
    /\ last = NoCall
    /\ remote = [code_violations |-> NoFeeds, permits |-> NoFeeds,
                 fire_911 |-> NoFeeds, urm |-> NoFeeds, king_county_sales |-> NoFeeds]
    /\ pc = "idle"
    /\ run_no = 0
    /\ run_id = 0
    /\ src_idx = 0
    /\ offset = 0
    /\ fetcher_counts = [props_touched |-> 0, signals_inserted |-> 0, skipped |-> 0]
    /\ totals = [total_props |-> 0, total_sigs |-> 0]
    /\ origin = {}
    /\ run_log = [errors |-> {}, started |-> {}, finished |-> {}, rescored |-> FALSE,
                  signals_before |-> {}, properties_before |-> {}]

Next ==
    \/ \E a \in PropertyArgs : UpsertProperty(a)
    \/ \E property_id \in PropertyIds, key \in SignalKeys, signal_type \in SignalTypes :
          UpsertSignal(property_id, key, signal_type)
    \/ StartPipelineRun
    \/ GetConnection

Spec == Init /\ [][Next]_vars

(***************************************************************************)
(* pipeline/fetchers: what run_fetcher asks of a fetcher.  A remote record *)
(* is [address, zip, lat, lng, id, type_text, status, description, cost,   *)
(* date]; each fetcher reads the fields its source has.                    *)
(***************************************************************************)
FETCHERS == <<"code_violations", "permits", "fire_911", "urm", "king_county_sales">>

\* `needle in text`, for the texts of the vocabulary
Contains(text, needle) ==
    \/ text = needle
    \/ <<text, needle>> \in
         {<<"VACANT BUILDING - NOTICE OF VIOLATION", "VACANT BUILDING">>,
          <<"VACANT BUILDING - NOTICE OF VIOLATION", "NOTICE OF VIOLATION">>,
          <<"NOTICE OF VIOLATION - CITATION ISSUED", "NOTICE OF VIOLATION">>,
          <<"NOTICE OF VIOLATION - CITATION ISSUED", "CITATION">>,
          <<"CITATION ISSUED", "CITATION">>,
          <<"LANDLORD/TENANT", "LANDLORD">>,
          <<"CONSTRUCTION NOISE", "CONSTRUCTION">>,
          <<"DEMOLISH GARAGE", "DEMOLISH">>,
          <<"DEMOLITION OF SHED", "DEMOLITION">>}

\* record.get("originaladdress1")
extract_address(source, record) == record.address

\* (float(lat), float(lng)) if lat and lng, else (None, None)
extract_coords(source, record) ==
    IF record.lat # None /\ record.lng # None
    THEN [lat |-> record.lat, lng |-> record.lng]
    ELSE [lat |-> None, lng |-> None]

\* record.get("originalzip")
extract_zip(source, record) == record.zip

\* record.get("recordnum") or record.get(":id", ""): the request does not ask
\* for the system field :id
RecordId(record) == IF record.id = NULL THEN "" ELSE record.id

\* CodeViolationsFetcher.extract_signals: the primary signal type
ComplaintType(record_type) ==
    IF Contains(record_type, "UNFIT FOR HABITATION") THEN "unfit_building"
    ELSE IF Contains(record_type, "VACANT BUILDING") THEN "vacant_building"
    ELSE IF Contains(record_type, "NOTICE OF VIOLATION") THEN "notice_of_violation"
    ELSE IF Contains(record_type, "CITATION") THEN "citation"
    ELSE IF Contains(record_type, "CONSTRUCTION") THEN "complaint_construction"
    ELSE IF Contains(record_type, "LANDLORD") THEN "complaint_landlord_tenant"
    ELSE "complaint_other"

\* f"{record_id}_nov"
NovIdPlain(record_id) == record_id
NovId(record_id) == record_id \o "_nov"

\* CodeViolationsFetcher.extract_signals
ComplaintSignals(record) ==
    LET signal_type == ComplaintType(record.type_text)
        extra(id, type) ==
            <<[source_record_id |-> id, signal_type |-> type,
               detail |-> record.status, event_date |-> record.date]>>
    IN  (IF Contains(record.status, "NOTICE OF VIOLATION")
            /\ signal_type # "notice_of_violation"
         THEN extra(NovId(RecordId(record)), "notice_of_violation") ELSE <<>>)
        \o (IF Contains(record.status, "CITATION") /\ signal_type # "citation"
            THEN extra(RecordId(record) \o "_citation", "citation") ELSE <<>>)
        \o <<[source_record_id |-> RecordId(record), signal_type |-> signal_type,
              detail |-> record.status, event_date |-> record.date]>>

MajorCost == 50000

\* an estprojectcost that float() does not parse
NotANumber(text) == <<"not a number", text>>

\* float(record.get("estprojectcost") or 0), 0 on ValueError
ParseCost(cost) == IF Len(cost) = 1 THEN cost[1] ELSE 0

\* cost > 50000
IsMajorFrom(cost) == cost >= MajorCost
IsMajor(cost) == cost > MajorCost

\* PermitsFetcher.extract_signals
PermitSignals(record) ==
    LET cost == ParseCost(record.cost)
        signal_type ==
            IF Contains(record.description, "DEMOLISH")
               \/ Contains(record.description, "DEMOLITION") THEN "demolished"
            ELSE IF record.status = "EXPIRED"
                 THEN (IF IsMajor(cost) THEN "expired_permit_major"
                       ELSE "expired_permit_minor")
            ELSE IF record.status = "CANCELED" THEN "permit_cancelled"
            ELSE "expired_permit_minor"
    IN  <<[source_record_id |-> RecordId(record), signal_type |-> signal_type,
           detail |-> record.status, event_date |-> record.date]>>

extract_signals(source, record) ==
    IF source = "code_violations" THEN ComplaintSignals(record)
    ELSE PermitSignals(record)

\* one request of SODAFetcher.paginate at $offset, $limit = PageSize:
\* raise_for_status() raises, or the rows of the page
Request(feed, at) ==
    [raised |-> feed.fail_at = at \div PageSize,
     records |-> SubSeq(feed.records, at + 1,
                        IF at + PageSize <= Len(feed.records)
                        THEN at + PageSize ELSE Len(feed.records))]

\* `if len(records) < SODA_PAGE_SIZE: break`
NeverLastPage(records) == FALSE
LastPage(records) == Len(records) < PageSize

(***************************************************************************)
(* pipeline/fetchers/recent_sales.py: the recent sales, one request per    *)
(* zip code.                                                               *)
(***************************************************************************)
WEST_SEATTLE_ZIPS == <<"98106", "98116", "98126", "98136", "98146">>

InWestSeattle(zip) == \E i \in DOMAIN WEST_SEATTLE_ZIPS : WEST_SEATTLE_ZIPS[i] = zip

\* what session.get does for one zip code: it raises, or answers with a
\* status code and a body; the body is "", starts with "<!" or "{", or is
\* CSV text with the zip codes of its rows
Raises == [raises |-> TRUE, status_code |-> 0, text |-> "", rows |-> <<>>]
Response(status_code, text, rows) ==
    [raises |-> FALSE, status_code |-> status_code, text |-> text, rows |-> rows]

\* `if row_zip not in WEST_SEATTLE_ZIPS: continue`
RowsInWestSeattle(rows) == SelectSeq(rows, LAMBDA row : InWestSeattle(row.zip))

\* RecentSalesFetcher._fetch_zip
fetch_zip(resp) ==
    IF resp.raises THEN [raised |-> TRUE, records |-> <<>>]
    ELSE IF resp.status_code # 200 THEN [raised |-> FALSE, records |-> <<>>]
    ELSE IF resp.text \in {"", "<!", "{"} THEN [raised |-> FALSE, records |-> <<>>]
    ELSE [raised |-> FALSE, records |-> RowsInWestSeattle(resp.rows)]

\* paginate, `except Exception as e`: a warning, and the next zip code
RaiseZipError(state) == "raised"
OnZipError(state) == state

\* the loop's position after the zip code at `at`
AfterZip(at) == IF at < Len(WEST_SEATTLE_ZIPS) THEN "zip" ELSE "done"

(***************************************************************************)
(* pipeline/fetchers/kc_enrichment.py: the parcel enrichment.              *)
(***************************************************************************)
\* a civil date, and the days from 1970-01-01 to it (what the difference of
\* two datetimes counts in .days)
Date(y, m, d) == [y |-> y, m |-> m, d |-> d]

DaysFromCivil(date) ==
    LET y   == IF date.m <= 2 THEN date.y - 1 ELSE date.y
        era == y \div 400
        yoe == y - era * 400
        mp  == (date.m + 9) % 12
        doy == (153 * mp + 2) \div 5 + date.d - 1
        doe == yoe * 365 + yoe \div 4 - yoe \div 100 + doy
    IN  era * 146097 + doe - 719468

\* sale.get("last_date"): a text that strptime parses as %m/%d/%Y or as
\* %Y-%m-%d, one that it does not parse, or an empty one
SaleDate(kind, date) == [kind |-> kind, date |-> date]
NoSaleDate == SaleDate("empty", Date(0, 0, 0))
BadSaleDate == SaleDate("bad", Date(0, 0, 0))

\* (datetime.now() - sale_dt).days
AgeDays(last_date, now) == DaysFromCivil(now) - DaysFromCivil(last_date.date)

\* age_years >= n, with age_years = days / 365.25
AtLeastYears(days, n) == 4 * days >= n * 1461

NoMailing == [present |-> FALSE, state |-> "", city |-> ""]
Mailing(state, city) == [present |-> TRUE, state |-> state, city |-> city]
NoSale == [present |-> FALSE, last_date |-> NoSaleDate, last_price |-> 0]
Sale(last_date, last_price) ==
    [present |-> TRUE, last_date |-> last_date, last_price |-> last_price]

\* str.upper() on the cities of the vocabulary
UpperCity(city) == IF city = "Seattle" THEN "SEATTLE" ELSE city

\* KCEnrichmentFetcher.extract_signals; last_price is int(float(...)), 0
\* when it does not parse
ParcelSignals(record, now) ==
    LET mailing == record.mailing
        sale    == record.sale
        parsed  == sale.present /\ sale.last_date.kind \in {"mdy", "iso"}
        days    == AgeDays(sale.last_date, now)
        signal(prefix, type) ==
            <<[source_record_id |-> prefix \o record.pin, signal_type |-> type]>>
    IN  (IF mailing.present /\ mailing.state # "" /\ mailing.state # "WA"
         THEN signal("kc-absentee-", "absentee_owner_out_of_state")
         ELSE IF /\ mailing.present
                 /\ mailing.state = "WA"
                 /\ mailing.city # ""
                 /\ UpperCity(mailing.city) # "SEATTLE"
              THEN signal("kc-absentee-", "absentee_owner_in_state")
         ELSE <<>>)
        \o (IF ~sale.present THEN signal("kc-longterm-", "long_term_owner_20yr")
            ELSE IF ~parsed THEN <<>>
            ELSE (IF AtLeastYears(days, 20)
                  THEN signal("kc-longterm-", "long_term_owner_20yr")
                  ELSE IF AtLeastYears(days, 10)
                       THEN signal("kc-longterm-", "long_term_owner_10yr")
                  ELSE <<>>)
                 \o (IF ~AtLeastYears(days, 1) /\ sale.last_price > 0
                     THEN signal("kc-sold-", "recently_sold") ELSE <<>>))
        \o (IF record.in_foreclosure THEN signal("kc-foreclosure-", "foreclosure")
            ELSE <<>>)
        \o (IF record.land_val > 0 /\ 10 * record.impr_val < 3 * record.land_val
            THEN signal("kc-lowimpr-", "low_improvement_ratio") ELSE <<>>)

\* the text of a DocumentDate cell, "MM/DD/YYYY", as its code points ("/" is 47)
Digit(n) == 48 + n
DocumentDate(date) ==
    << Digit(date.m \div 10), Digit(date.m % 10), 47,
       Digit(date.d \div 10), Digit(date.d % 10), 47,
       Digit(date.y \div 1000), Digit((date.y \div 100) % 10),
       Digit((date.y \div 10) % 10), Digit(date.y % 10) >>
NoDocumentDate == <<>>

\* Python's str a < b: the first differing code point decides, a proper
\* prefix is the smaller
TextLess(a, b) ==
    \E i \in 1..Len(b) :
        /\ \A j \in 1..(i - 1) : j <= Len(a) /\ a[j] = b[j]
        /\ i > Len(a) \/ a[i] < b[i]

\* existing["last_date"] >= doc_date
KeepExisting(last_date, doc_date) == ~TextLess(last_date, doc_date)

WsPins == {"0123456789", "0123450001"}
NoRetainedSale == [present |-> FALSE, last_date |-> NoDocumentDate, last_price |-> 0]

\* one row of the RPSale CSV read by _load_sales
LoadSalesRow(sales, row) ==
    IF row.pin \notin WsPins THEN sales
    ELSE IF row.DocumentDate = NoDocumentDate THEN sales
    ELSE IF sales[row.pin].present
            /\ KeepExisting(sales[row.pin].last_date, row.DocumentDate) THEN sales
    ELSE [sales EXCEPT ![row.pin] = [present |-> TRUE, last_date |-> row.DocumentDate,
                                     last_price |-> row.SalePrice]]

\* _has_signals: `if age_years >= 10: return True`
OldOnlyFrom20(days) == 4 * days >= 20 * 1461
OldEnough(days) == 4 * days >= 10 * 1461

\* KCEnrichmentFetcher._has_signals
has_signals(record, now) ==
    IF /\ record.mailing.present
       /\ \/ record.mailing.state # "" /\ record.mailing.state # "WA"
          \/ /\ record.mailing.state = "WA"
             /\ record.mailing.city # ""
             /\ UpperCity(record.mailing.city) # "SEATTLE"
    THEN TRUE
    ELSE IF record.in_foreclosure THEN TRUE
    ELSE IF ~record.sale.present THEN TRUE
    ELSE IF /\ record.sale.last_date.kind \in {"mdy", "iso"}
            /\ \/ OldEnough(AgeDays(record.sale.last_date, now))
               \/ /\ 4 * AgeDays(record.sale.last_date, now) < 1461
                  /\ record.sale.last_price > 0
         THEN TRUE
    ELSE record.land_val > 0 /\ 10 * record.impr_val < 3 * record.land_val

(***************************************************************************)
(* pipeline/db.py and pipeline/run.py: the audit pass.                     *)
(***************************************************************************)
Threshold == 10
DegreeMeters == 111000

Abs(x) == IF x >= 0 THEN x ELSE -x

\* find_nearby_property: None or Some(row with dist).  ORDER BY dist LIMIT 1
\* leaves the row among equal dist open; the scan gives the lowest id.
find_nearby_property(d, lat, lng) ==
    IF lat = None \/ lng = None THEN None
    ELSE LET dist(p) == Abs(p.latitude[1] - lat[1]) + Abs(p.longitude[1] - lng[1])
             near == {p \in d.properties :
                        /\ p.latitude # None /\ p.longitude # None
                        /\ Abs(p.latitude[1] - lat[1]) < Threshold
                        /\ Abs(p.longitude[1] - lng[1]) < Threshold}
         IN  IF near = {} THEN None
             ELSE LET best == CHOOSE p \in near : \A q \in near :
                                  \/ dist(p) < dist(q)
                                  \/ dist(p) = dist(q) /\ p.id <= q.id
                  IN  Some([id |-> best.id, dist |-> dist(best)])

RECURSIVE LogIssues(_, _, _, _)
LogIssues(d, rows, source, now) ==
    IF rows = {} THEN d
    ELSE Bind(CHOOSE r \in rows : \A q \in rows : r.id <= q.id, LAMBDA row :
         Bind(find_nearby_property(d, row.latitude, row.longitude), LAMBDA nearby :
         Bind(IF nearby # None /\ nearby[1].id # row.id
              THEN log_normalization_issue(d, row.address_raw, row.address_norm,
                       source, row.latitude, row.longitude, nearby[1].id,
                       nearby[1].dist * DegreeMeters, now)
              ELSE d, LAMBDA d1 :
         Bind(rows \ {row}, LAMBDA rest :
         LogIssues(d1, rest, source, now)))))

\* _check_normalization_issues
check_normalization_issues(d, source, now) ==
    Bind({p \in d.properties :
            /\ p.latitude # None /\ p.longitude # None
            /\ \E g \in d.signals : g.property_id = p.id /\ g.source = source},
         LAMBDA rows : LogIssues(d, rows, source, now))

(***************************************************************************)
(* pipeline/run.py: run_fetcher and main.                                  *)
(***************************************************************************)
\* the loop over fetcher.extract_signals(record)
RECURSIVE InsertSignals(_, _, _, _, _, _)
InsertSignals(st, source, prop_id, raw_addr, sigs, now) ==
    IF sigs = <<>> THEN st
    ELSE Bind(Head(sigs), LAMBDA sig :
         Bind(upsert_signal(st.db, prop_id, source, sig.source_record_id,
                            sig.signal_type, 0, sig.detail, sig.event_date, now),
              LAMBDA r :
         Bind(IF r.inserted
              THEN [st EXCEPT
                      !.db = r.db,
                      !.signals_inserted = @ + 1,
                      !.origin = @ \cup {[signal |-> r.db.last_insert_rowid,
                                          address |-> raw_addr]}]
              ELSE st, LAMBDA st1 :
         Bind(Tail(sigs), LAMBDA rest :
         InsertSignals(st1, source, prop_id, raw_addr, rest, now)))))

\* `skipped += 1; continue`
SkipUncounted(st) == st
SkipRecord(st) == [st EXCEPT !.skipped = @ + 1]

\* the body of `for record in page`
ProcessRecord(st, source, record, now) ==
    Bind(extract_address(source, record), LAMBDA raw_addr :
    Bind(normalize_address(raw_addr), LAMBDA norm_addr :
    IF raw_addr = NoAddress \/ norm_addr = NoAddress
    THEN SkipRecord(st)
    ELSE Bind(extract_coords(source, record), LAMBDA coords :
         Bind(upsert_property(st.db, raw_addr, norm_addr,
                              extract_zip(source, record),
                              coords.lat, coords.lng, "unknown", now), LAMBDA up :
         Bind([st EXCEPT !.db = up.db, !.props_touched = @ + 1], LAMBDA st1 :
         Bind(extract_signals(source, record), LAMBDA sigs :
         InsertSignals(st1, source, up.id, raw_addr, sigs, now)))))))

\* `for record in page: ...` and conn.commit()
RECURSIVE ProcessPage(_, _, _, _)
ProcessPage(st, source, page, now) ==
    IF page = <<>> THEN st
    ELSE Bind(ProcessRecord(st, source, Head(page), now), LAMBDA st1 :
         Bind(Tail(page), LAMBDA rest :
         ProcessPage(st1, source, rest, now)))

Source == FETCHERS[src_idx]
Feed == remote[Source]

\* main, `except Exception as e`: the error is printed and the loop goes on
StopOnFetcherError(i) == [pc |-> "crashed", src_idx |-> i]
AfterFetcher(i) ==
    IF i < Len(FETCHERS) THEN [pc |-> "paginate", src_idx |-> i + 1]
    ELSE [pc |-> "rescore", src_idx |-> i]
OnFetcherError(i) == AfterFetcher(i)

NoCounts == [props_touched |-> 0, signals_inserted |-> 0, skipped |-> 0]

\* main up to the loop over the sources: get_connection, init_db,
\* start_pipeline_run
StartRun ==
    /\ pc = "idle"
    /\ run_no < MaxRuns
    /\ LET r == start_pipeline_run(get_connection(DB), FETCHERS, clock)
       IN  /\ SetDB(r.db)
           /\ run_id' = r.id
    /\ run_no' = run_no + 1
    /\ totals' = [total_props |-> 0, total_sigs |-> 0]
    /\ src_idx' = 1
    /\ offset' = 0
    /\ fetcher_counts' = NoCounts
    /\ pc' = "paginate"
    /\ run_log' = [errors |-> {}, started |-> {}, finished |-> {}, rescored |-> FALSE,
                   signals_before |-> signals, properties_before |-> properties]
    /\ UNCHANGED <<clock, last, remote, origin>>

\* run_fetcher: one page is fetched, its records are upserted, and the page
\* is committed
RunPage ==
    /\ pc = "paginate"
    /\ \E resp \in {Request(Feed, offset)} :
         /\ ~resp.raised
         /\ resp.records # <<>>
         /\ \E st \in {ProcessPage([db |-> DB, origin |-> origin,
                                    props_touched |-> fetcher_counts.props_touched,
                                    signals_inserted |-> fetcher_counts.signals_inserted,
                                    skipped |-> fetcher_counts.skipped],
                                   Source, resp.records, clock)} :
              /\ SetDB(st.db)
              /\ origin' = st.origin
              /\ fetcher_counts' = [props_touched |-> st.props_touched,
                                    signals_inserted |-> st.signals_inserted,
                                    skipped |-> st.skipped]
         /\ offset' = offset + Len(resp.records)
         /\ pc' = IF LastPage(resp.records) THEN "paginated" ELSE "paginate"
    /\ run_log' = [run_log EXCEPT !.started = @ \cup {Source}]
    /\ UNCHANGED <<clock, last, remote, run_no, run_id, src_idx, totals>>

\* run_fetcher after the last page (a short page ended the pages, or the
\* request returns no rows): the audit pass, and main adds the counts
FinishFetcher ==
    /\ \/ pc = "paginated"
       \/ /\ pc = "paginate"
          /\ ~Request(Feed, offset).raised
          /\ Request(Feed, offset).records = <<>>
    /\ \E d \in {check_normalization_issues(DB, Source, clock)} : SetDB(d)
    /\ totals' = [total_props |-> totals.total_props + fetcher_counts.props_touched,
                  total_sigs |-> totals.total_sigs + fetcher_counts.signals_inserted]
    /\ pc' = AfterFetcher(src_idx).pc
    /\ src_idx' = AfterFetcher(src_idx).src_idx
    /\ offset' = 0
    /\ fetcher_counts' = NoCounts
    /\ run_log' = [run_log EXCEPT !.started = @ \cup {Source},
                                  !.finished = @ \cup {Source}]
    /\ UNCHANGED <<clock, last, remote, run_no, run_id, origin>>

\* a request of the fetcher raises: run_fetcher is left, main logs the error
FetcherRaises ==
    /\ pc = "paginate"
    /\ Request(Feed, offset).raised
    /\ pc' = OnFetcherError(src_idx).pc
    /\ src_idx' = OnFetcherError(src_idx).src_idx
    /\ offset' = 0
    /\ fetcher_counts' = NoCounts
    /\ run_log' = [run_log EXCEPT !.started = @ \cup {Source},
                                  !.errors = @ \cup {Source}]
    /\ UNCHANGED <<storeVars, clock, last, remote, run_no, run_id, totals, origin>>

\* main: rescore_all(conn, load_config())
Rescore ==
    /\ pc = "rescore"
    /\ \E d \in {rescore_all(DB, Config, clock)} : SetDB(d)
    /\ pc' = "complete"
    /\ run_log' = [run_log EXCEPT !.rescored = TRUE]
    /\ UNCHANGED <<clock, last, remote, run_no, run_id, src_idx, offset,
                   fetcher_counts, totals, origin>>

\* main: complete_pipeline_run, print_summary, conn.close()
CompleteRun ==
    /\ pc = "complete"
    /\ SetDB(complete_pipeline_run(DB, run_id, totals.total_props, totals.total_sigs,
                                   clock))
    /\ pc' = "idle"
    /\ UNCHANGED <<clock, last, remote, run_no, run_id, src_idx, offset,
                   fetcher_counts, totals, origin, run_log>>

(***************************************************************************)
(* What the remote sources hold.                                           *)
(***************************************************************************)
TenDays == 10 * DaySeconds

ComplaintRecord(address, id) ==
    [address |-> address, zip |-> "98106",
     lat |-> IF address = AddrB THEN PointB.lat ELSE PointA.lat, lng |-> PointA.lng,
     id |-> id, type_text |-> "VACANT BUILDING", status |-> "CLOSED",
     description |-> "", cost |-> None, date |-> IsoDate(Now0 - TenDays)]

PermitRecord(address, id, status, cost) ==
    [address |-> address, zip |-> NULL, lat |-> None, lng |-> None,
     id |-> id, type_text |-> "", status |-> status,
     description |-> "", cost |-> cost, date |-> NoDate]

RecordNum(i) == "r" \o ToString(i)

\* complaints: up to MaxRecords records at one of two addresses, each with
\* its own recordnum or with none
ComplaintFeeds ==
    UNION {[records : [1..n -> {ComplaintRecord(AddrA1, "x"), ComplaintRecord(AddrB, "x"),
                                ComplaintRecord(AddrA1, NULL), ComplaintRecord(AddrB, NULL)}],
            fail_at : {-1, 1}] : n \in 0..MaxRecords}

NumberRecords(feed) ==
    [feed EXCEPT !.records =
        [i \in 1..Len(feed.records) |->
            IF feed.records[i].id = NULL THEN feed.records[i]
            ELSE [feed.records[i] EXCEPT !.id = RecordNum(i)]]]

\* records at the given addresses, numbered r1, r2, ... in :id order
NumberedPage(addresses) ==
    [i \in 1..Len(addresses) |-> ComplaintRecord(addresses[i], RecordNum(i))]

PermitFeeds ==
    {NoFeeds,
     [records |-> <<PermitRecord(AddrA2, "p1", "EXPIRED", Some(75000))>>, fail_at |-> -1],
     [records |-> <<PermitRecord(NoAddress, "p1", "EXPIRED", None),
                    PermitRecord(AddrB, "p3", "EXPIRED", Some(25000)),
                    PermitRecord(AddrZipOnly, "p2", "CANCELED", None)>>, fail_at |-> -1],
     [records |-> <<PermitRecord(AddrA2, "p1", "EXPIRED", Some(75000))>>, fail_at |-> 0]}

RunInit ==
    /\ InitDB(EmptyDB)
    /\ clock = Now0
    /\ last = NoCall
    /\ \E c \in ComplaintFeeds, p \in PermitFeeds :
         remote = [code_violations |-> NumberRecords(c), permits |-> p,
                   fire_911 |-> NoFeeds, urm |-> NoFeeds, king_county_sales |-> NoFeeds]
    /\ pc = "idle"
    /\ run_no = 0
    /\ run_id = 0
    /\ src_idx = 0
    /\ offset = 0
    /\ fetcher_counts = NoCounts
    /\ totals = [total_props |-> 0, total_sigs |-> 0]
    /\ origin = {}
    /\ run_log = [errors |-> {}, started |-> {}, finished |-> {}, rescored |-> FALSE,
                  signals_before |-> {}, properties_before |-> {}]

RunNext ==
    \/ StartRun
    \/ RunPage
    \/ FinishFetcher
    \/ FetcherRaises
    \/ Rescore
    \/ CompleteRun

RunSpec == RunInit /\ [][RunNext]_vars

\* a Python process that is not killed goes on to its next statement
FairRunSpec == RunSpec /\ WF_vars(RunNext)

(***************************************************************************)
(* pipeline/run.py: a whole invocation of main as a function of the store  *)
(* and of the remote data, and a process that is killed between pages.     *)
(***************************************************************************)
\* SODAFetcher.paginate driven by run_fetcher's loop, from $offset = at on;
\* st.raised when a request raises
RECURSIVE paginate(_, _, _, _, _)
paginate(st, source, feed, at, now) ==
    Bind(Request(feed, at), LAMBDA resp :
    IF resp.raised THEN [st EXCEPT !.raised = TRUE]
    ELSE IF resp.records = <<>> THEN st
    ELSE Bind(ProcessPage(st, source, resp.records, now), LAMBDA st1 :
         IF LastPage(resp.records) THEN st1
         ELSE paginate(st1, source, feed, at + Len(resp.records), now)))

\* run_fetcher: [db, origin, props_touched, signals_inserted, skipped, raised]
run_fetcher(d, source, feed, now) ==
    Bind(paginate([db |-> d, origin |-> {}, props_touched |-> 0,
                   signals_inserted |-> 0, skipped |-> 0, raised |-> FALSE],
                  source, feed, 0, now), LAMBDA st :
    IF st.raised THEN st
    ELSE [st EXCEPT !.db = check_normalization_issues(st.db, source, now)])

\* main, `for source_name in sources`, from the i-th source on:
\* [db, total_props, total_sigs]
RECURSIVE RunSources(_, _, _, _, _)
RunSources(acc, sources, feeds, i, now) ==
    IF i > Len(sources) THEN acc
    ELSE Bind(run_fetcher(acc.db, sources[i], feeds[sources[i]], now), LAMBDA st :
         Bind(IF st.raised THEN [acc EXCEPT !.db = st.db]
              ELSE [db |-> st.db,
                    total_props |-> acc.total_props + st.props_touched,
                    total_sigs |-> acc.total_sigs + st.signals_inserted], LAMBDA acc1 :
         RunSources(acc1, sources, feeds, i + 1, now)))

\* main with the given sources, run to its end on the store d: the store
\* it leaves
main(d, sources, feeds, now) ==
    Bind(start_pipeline_run(get_connection(d), sources, now), LAMBDA run :
    Bind(RunSources([db |-> run.db, total_props |-> 0, total_sigs |-> 0],
                    sources, feeds, 1, now), LAMBDA acc :
    Bind(rescore_all(acc.db, Config, now), LAMBDA scored :
    complete_pipeline_run(scored, run.id, acc.total_props, acc.total_sigs, now))))

\* `python -m pipeline.run --source X` for each X of order in turn, from the
\* i-th on: the store the last invocation leaves
RECURSIVE RunEach(_, _, _, _, _)
RunEach(d, order, feeds, i, now) ==
    IF i > Len(order) THEN d
    ELSE Bind(main(d, <<order[i]>>, feeds, now), LAMBDA d1 :
         RunEach(d1, order, feeds, i + 1, now))

\* the orders in which the two sources that hold records can be taken
Orderings ==
    {<<"code_violations", "permits">>, <<"permits", "code_violations">>}

\* the process is killed in run_fetcher after a page has been committed:
\* the store keeps what was committed, the run row stays 'running'
Interrupt ==
    /\ pc \in {"paginate", "paginated"}
    /\ offset > 0
    /\ pc' = "idle"
    /\ src_idx' = 0
    /\ offset' = 0
    /\ fetcher_counts' = NoCounts
    /\ totals' = [total_props |-> 0, total_sigs |-> 0]
    /\ UNCHANGED <<storeVars, clock, last, remote, run_no, run_id, origin, run_log>>

CrashNext == RunNext \/ Interrupt

CrashSpec == RunInit /\ [][CrashNext]_vars

(***************************************************************************)
(* ScoreSpec: a store of two properties and a few signals, scored by       *)
(* rescore_all and read by the dashboard's breakdown.                      *)
(***************************************************************************)
\* max_age_cutoff = now - timedelta(days=max_age_days)
Cutoff(now) == now - MaxAgeDays * DaySeconds

\* the signals a store may hold: undated and unparseable dates, dates a
\* second before, at and a second after the cutoff, a recent date; three
\* sources; statuses with and without a multiplier
ScoredSignals ==
    <<[source |-> "code_violations", signal_type |-> "vacant_building",
       event_date |-> NoDate, detail |-> NULL],
      [source |-> "code_violations", signal_type |-> "vacant_building",
       event_date |-> IsoDate(Now0 - TenDays), detail |-> "CLOSED"],
      [source |-> "code_violations", signal_type |-> "citation",
       event_date |-> IsoDate(Cutoff(Now0) + 1), detail |-> "OPEN"],
      [source |-> "code_violations", signal_type |-> "citation",
       event_date |-> IsoDate(Cutoff(Now0) - 1), detail |-> NULL],
      [source |-> "permits", signal_type |-> "expired_permit_major",
       event_date |-> IsoDate(Cutoff(Now0) - 1), detail |-> "EXPIRED"],
      [source |-> "permits", signal_type |-> "expired_permit_major",
       event_date |-> IsoDate(Cutoff(Now0) + 1), detail |-> "CLOSED"],
      [source |-> "permits", signal_type |-> "permit_other",
       event_date |-> BadDate, detail |-> NULL],
      [source |-> "permits", signal_type |-> "expired_permit_major",
       event_date |-> IsoDate(Cutoff(Now0)), detail |-> NULL],
      [source |-> "king_county_sales", signal_type |-> "recently_sold",
       event_date |-> NoDate, detail |-> NULL]>>

\* two properties, ids 1 and 2
TwoProperties ==
    upsert_property(
        upsert_property(EmptyDB, AddrA1, NormA, "98106", PointA.lat, PointA.lng,
                        "unknown", Now0).db,
        AddrB, NormB, NULL, None, None, "unknown", Now0).db

\* signal number i is ScoredSignals[k] on property p
SignalNumber(p, k) == (p - 1) * Len(ScoredSignals) + k

\* upsert_signal for every chosen signal, in the order of their numbers
RECURSIVE StoreSignals(_, _, _)
StoreSignals(d, chosen, i) ==
    IF i > 2 * Len(ScoredSignals) THEN d
    ELSE Bind(((i - 1) \div Len(ScoredSignals)) + 1, LAMBDA p :
         Bind(((i - 1) % Len(ScoredSignals)) + 1, LAMBDA k :
         Bind(IF <<p, k>> \in chosen
              THEN upsert_signal(d, p, ScoredSignals[k].source, "s" \o ToString(i),
                                 ScoredSignals[k].signal_type, 0,
                                 ScoredSignals[k].detail, ScoredSignals[k].event_date,
                                 Now0).db
              ELSE d, LAMBDA d1 :
         StoreSignals(d1, chosen, i + 1))))

ScoreInit ==
    /\ \E chosen \in {c \in SUBSET ((1..2) \X DOMAIN ScoredSignals) :
                          Cardinality(c) <= MaxRecords} :
          InitDB(StoreSignals(TwoProperties, chosen, 1))
    /\ clock = Now0
    /\ last = NoCall
    /\ remote = [code_violations |-> NoFeeds, permits |-> NoFeeds,
                 fire_911 |-> NoFeeds, urm |-> NoFeeds, king_county_sales |-> NoFeeds]
    /\ pc = "idle"
    /\ run_no = 0
    /\ run_id = 0
    /\ src_idx = 0
    /\ offset = 0
    /\ fetcher_counts = NoCounts
    /\ totals = [total_props |-> 0, total_sigs |-> 0]
    /\ origin = {}
    /\ run_log = [errors |-> {}, started |-> {}, finished |-> {}, rescored |-> FALSE,
                  signals_before |-> {}, properties_before |-> {}]

\* python run.py --rescore-only
RescoreAll ==
    /\ SetDB(rescore_all(DB, Config, clock))
    /\ last' = [NoCall EXCEPT !.op = "rescore_all", !.now = clock]
    /\ UNCHANGED clock
    /\ RunStateUnchanged

\* dict[key] = value
Put(dict, key, value) ==
    [k \in DOMAIN dict \cup {key} |-> IF k = key THEN value ELSE dict[k]]

\* ui.py, max_age_cutoff
BreakdownNoCutoff(now) == 0
BreakdownCutoff(now) == now - MaxAgeDays * DaySeconds

\* ui.py, `for row in rows` of api_breakdown: by_source, every subtotal a
\* numerator over ScoreDen
RECURSIVE BreakdownRows(_, _, _, _)
BreakdownRows(rows, by_source, config, now) ==
    IF rows = {} THEN by_source
    ELSE Bind(CHOOSE r \in rows : TRUE, LAMBDA row :
         Bind(rows \ {row}, LAMBDA rest :
         Bind(Get(config.signal_weights, row.signal_type, 1), LAMBDA base_weight :
         IF row.event_date.kind = "iso" /\ row.event_date.t < BreakdownCutoff(now)
         THEN BreakdownRows(rest, by_source, config, now)
         ELSE Bind(IF row.event_date.kind = "iso"
                   THEN DecayBoostDen * MaxAgeDays
                          + DecayBoostNum
                              * Max(0, MaxAgeDays - ((now - row.event_date.t) \div DaySeconds))
                   ELSE DecayBoostDen * MaxAgeDays, LAMBDA decay_mult :
              Bind(IF /\ row.detail # NULL
                      /\ row.source \in DOMAIN config.status_multipliers
                      /\ LowerStrip(row.detail)
                           \in DOMAIN config.status_multipliers[row.source]
                   THEN config.status_multipliers[row.source][LowerStrip(row.detail)]
                   ELSE PercentDen, LAMBDA status_mult :
              BreakdownRows(rest,
                            Put(by_source, row.source,
                                Get(by_source, row.source, 0)
                                  + base_weight * decay_mult * status_mult),
                            config, now))))))

\* ui.py, api_breakdown
api_breakdown(d, property_id, config, now) ==
    BreakdownRows({s \in d.signals : s.property_id = property_id},
                  [source \in {} |-> 0], config, now)

\* GET /api/properties/<property_id>/breakdown
Breakdown(property_id) ==
    /\ last' = [op |-> "api_breakdown", now |-> clock, property_id |-> property_id,
                by_source |-> api_breakdown(DB, property_id, Config, clock)]
    /\ UNCHANGED <<storeVars, clock>>
    /\ RunStateUnchanged

ScoreNext ==
    \/ RescoreAll
    \/ \E property_id \in PropertyIds : Breakdown(property_id)

ScoreSpec == ScoreInit /\ [][ScoreNext]_vars

(***************************************************************************)
(* DecaySpec: score_property on a property with one signal, dated around   *)
(* now, around the cutoff, and after now.                                  *)
(***************************************************************************)
EventDates ==
    {NoDate, BadDate}
    \cup {IsoDate(Now0 - back) :
            back \in {0, 1, DaySeconds - 1, DaySeconds, TenDays,
                      (MaxAgeDays - 1) * DaySeconds, MaxAgeDays * DaySeconds - 1,
                      MaxAgeDays * DaySeconds, MaxAgeDays * DaySeconds + 1}}
    \cup {IsoDate(Now0 + ahead) : ahead \in {1, DaySeconds, 30 * DaySeconds}}

\* source, signal_type and the status in detail
DatedSignals ==
    {<<"code_violations", "vacant_building", NULL>>,
     <<"code_violations", "citation", "CLOSED">>,
     <<"code_violations", "notice_of_violation", "OPEN">>,
     <<"permits", "expired_permit_major", "EXPIRED">>,
     <<"permits", "permit_other", NULL>>}

OneProperty ==
    upsert_property(EmptyDB, AddrA1, NormA, "98106", PointA.lat, PointA.lng,
                    "unknown", Now0).db

DecayInit ==
    /\ \E kind \in DatedSignals : \E event_date \in EventDates :
          InitDB(upsert_signal(OneProperty, 1, kind[1], "s1", kind[2], 0, kind[3],
                               event_date, Now0).db)
    /\ clock = Now0
    /\ last = NoCall
    /\ remote = [code_violations |-> NoFeeds, permits |-> NoFeeds,
                 fire_911 |-> NoFeeds, urm |-> NoFeeds, king_county_sales |-> NoFeeds]
    /\ pc = "idle"
    /\ run_no = 0
    /\ run_id = 0
    /\ src_idx = 0
    /\ offset = 0
    /\ fetcher_counts = NoCounts
    /\ totals = [total_props |-> 0, total_sigs |-> 0]
    /\ origin = {}
    /\ run_log = [errors |-> {}, started |-> {}, finished |-> {}, rescored |-> FALSE,
                  signals_before |-> {}, properties_before |-> {}]

\* score_property(conn, 1, config)
ScoreProperty ==
    /\ last.op = "none"
    /\ \E scored \in {score_property(DB, 1, Config, clock)} :
         last' = [op |-> "score_property", now |-> clock, property_id |-> 1,
                  total |-> scored.total, tier |-> scored.tier]
    /\ UNCHANGED <<storeVars, clock>>
    /\ RunStateUnchanged

DecayNext == ScoreProperty
DecaySpec == DecayInit /\ [][DecayNext]_vars

(***************************************************************************)
(* NormSpec: a caller of normalize_address, which passes a raw address     *)
(* and then passes the result again.                                       *)
(***************************************************************************)
\* the words of the raw addresses
AddressWords ==
    {"100", "MAIN", "st", "SEATTLE", "WA", "98106", "#201", "UNIT", "S.", "WEST",
     "FIRST", "1", "STREET"}

RawAddresses == UNION {[1..n -> AddressWords] : n \in 0..MaxTokens}

\* an empty store and no run: the callers of the functions below start here
Quiet ==
    /\ InitDB(EmptyDB)
    /\ clock = Now0
    /\ remote = [code_violations |-> NoFeeds, permits |-> NoFeeds,
                 fire_911 |-> NoFeeds, urm |-> NoFeeds, king_county_sales |-> NoFeeds]
    /\ pc = "idle"
    /\ run_no = 0
    /\ run_id = 0
    /\ src_idx = 0
    /\ offset = 0
    /\ fetcher_counts = NoCounts
    /\ totals = [total_props |-> 0, total_sigs |-> 0]
    /\ origin = {}
    /\ run_log = [errors |-> {}, started |-> {}, finished |-> {}, rescored |-> FALSE,
                  signals_before |-> {}, properties_before |-> {}]

\* what does not change when a function is called
QuietStep == UNCHANGED <<storeVars, clock, runVars>>

NormInit ==
    /\ Quiet
    /\ \E raw \in RawAddresses : last = [NoCall EXCEPT !.address_raw = raw]

\* normalize_address(raw)
Normalize ==
    /\ last.op = "none"
    /\ last' = [last EXCEPT !.op = "normalize_address",
                            !.address_norm = normalize_address(last.address_raw)]
    /\ QuietStep

\* normalize_address(normalize_address(raw)), for a result that is not None
NormalizeAgain ==
    /\ last.op = "normalize_address"
    /\ last.address_norm # NoAddress
    /\ last' = [last EXCEPT !.op = "normalize_again",
                            !.address_raw = last.address_norm,
                            !.address_norm = normalize_address(last.address_norm)]
    /\ QuietStep

NormNext == Normalize \/ NormalizeAgain

NormSpec == NormInit /\ [][NormNext]_vars

(***************************************************************************)
(* PageSpec: SODAFetcher.paginate as a generator, against a dataset that   *)
(* does not change; `last` holds the requests made and the batches         *)
(* yielded.                                                                *)
(***************************************************************************)
\* the dataset in :id order, and the request that answers with an error
PageFeeds ==
    UNION {[records : {NumberedPage(recs) : recs \in [1..n -> {AddrA1, AddrA2, AddrB}]},
            fail_at : -1..(MaxRecords \div PageSize)] : n \in 0..MaxRecords}

PageInit ==
    /\ InitDB(EmptyDB)
    /\ clock = Now0
    /\ \E feed \in PageFeeds :
          remote = [code_violations |-> feed, permits |-> NoFeeds, fire_911 |-> NoFeeds,
                    urm |-> NoFeeds, king_county_sales |-> NoFeeds]
    /\ last = [op |-> "paginate", requests |-> <<>>, yielded |-> <<>>]
    /\ pc = "paginate"
    /\ run_no = 0
    /\ run_id = 0
    /\ src_idx = 1
    /\ offset = 0
    /\ fetcher_counts = NoCounts
    /\ totals = [total_props |-> 0, total_sigs |-> 0]
    /\ origin = {}
    /\ run_log = [errors |-> {}, started |-> {}, finished |-> {}, rescored |-> FALSE,
                  signals_before |-> {}, properties_before |-> {}]

PageStep(next_pc, next_offset) ==
    /\ pc' = next_pc
    /\ offset' = next_offset
    /\ UNCHANGED <<storeVars, clock, remote, run_no, run_id, src_idx, fetcher_counts,
                   totals, origin, run_log>>

\* session.get, raise_for_status() raises
PageRaises ==
    /\ pc = "paginate"
    /\ Request(Feed, offset).raised
    /\ last' = [last EXCEPT !.requests = Append(@, offset)]
    /\ PageStep("raised", offset)

\* `if not records: break`
PageEmpty ==
    /\ pc = "paginate"
    /\ \E resp \in {Request(Feed, offset)} :
          /\ ~resp.raised
          /\ resp.records = <<>>
    /\ last' = [last EXCEPT !.requests = Append(@, offset)]
    /\ PageStep("done", offset)

\* `yield records`, and the loop ends after a page that is not full
PageYields ==
    /\ pc = "paginate"
    /\ \E resp \in {Request(Feed, offset)} :
          /\ ~resp.raised
          /\ resp.records # <<>>
          /\ last' = [last EXCEPT !.requests = Append(@, offset),
                                  !.yielded = Append(@, resp.records)]
          /\ PageStep(IF LastPage(resp.records) THEN "done" ELSE "paginate",
                      offset + Len(resp.records))

PageNext == PageRaises \/ PageEmpty \/ PageYields

PageSpec == PageInit /\ [][PageNext]_vars /\ WF_vars(PageNext)

(***************************************************************************)
(* ExtractSpec: a caller of the fetchers' extract_signals, with one record *)
(* of a dataset.                                                           *)
(***************************************************************************)
\* recordtypedesc and statuscurrent of the complaints, upper case
ComplaintTypeTexts ==
    {"UNFIT FOR HABITATION", "VACANT BUILDING", "NOTICE OF VIOLATION", "CITATION",
     "VACANT BUILDING - NOTICE OF VIOLATION", "CONSTRUCTION NOISE", "LANDLORD/TENANT",
     "WEEDS", ""}
ComplaintStatuses ==
    {"OPEN", "CLOSED", "", "NOTICE OF VIOLATION", "CITATION", "CITATION ISSUED",
     "NOTICE OF VIOLATION - CITATION ISSUED"}

ComplaintRecords ==
    {[ComplaintRecord(AddrA1, id) EXCEPT !.type_text = type_text, !.status = status] :
        id \in {"r1", NULL}, type_text \in ComplaintTypeTexts, status \in ComplaintStatuses}

\* description, statuscurrent and estprojectcost of the permits
PermitRecords ==
    {[PermitRecord(AddrA1, id, status, cost) EXCEPT !.description = description] :
        id \in {"p1"},
        status \in {"EXPIRED", "CANCELED", "ISSUED", ""},
        cost \in {None, Some(25000), Some(MajorCost), Some(MajorCost + 1), Some(75000),
                  NotANumber("75,000")},
        description \in {"", "NEW DECK", "DEMOLISH GARAGE", "DEMOLITION OF SHED"}}

\* the days on which the parcels are looked at: the ten years before the
\* first hold two 29ths of February, those before the second three
Todays == {Date(2026, 11, 15), Date(2024, 3, 15)}

\* last sales 0, 1, 10 and 20 calendar years before `now`, to the day and a
\* day either side
SaleDates(now) ==
    {SaleDate("mdy", Date(now.y - years, now.m, now.d + days)) :
        years \in {0, 1, 10, 20}, days \in {-1, 0, 1}}
    \cup {SaleDate("iso", Date(now.y - 10, now.m, now.d)), BadSaleDate, NoSaleDate}

Parcels(now) ==
    {[pin |-> "0123456789", address |-> AddrA1, zip |-> "98106",
      land_val |-> values[1], impr_val |-> values[2],
      mailing |-> mailing, sale |-> sale, in_foreclosure |-> in_foreclosure] :
        values \in {<<0, 0>>, <<100, 29>>, <<100, 31>>},
        mailing \in {NoMailing, Mailing("WA", "Seattle"), Mailing("WA", "BELLEVUE"),
                     Mailing("OR", "PORTLAND"), Mailing("", "")},
        sale \in {NoSale} \cup {Sale(last_date, last_price) :
                                   last_date \in SaleDates(now),
                                   last_price \in {0, 450000}},
        in_foreclosure \in BOOLEAN}

ExtractInit ==
    /\ Quiet
    /\ \/ \E record \in ComplaintRecords :
             last = [op |-> "record", source |-> "code_violations", record |-> record]
       \/ \E record \in PermitRecords :
             last = [op |-> "record", source |-> "permits", record |-> record]
       \/ \E now \in Todays : \E record \in Parcels(now) :
             last = [op |-> "record", source |-> "kc_enrichment", record |-> record,
                     now |-> now]

\* fetcher.extract_signals(record)
ExtractSignals ==
    /\ last.op = "record"
    /\ last.source \in {"code_violations", "permits"}
    /\ last' = [op |-> "extract_signals", source |-> last.source, record |-> last.record,
                signals |-> extract_signals(last.source, last.record)]
    /\ QuietStep

\* KCEnrichmentFetcher().extract_signals(record), on the day `now`
ExtractParcelSignals ==
    /\ last.op = "record"
    /\ last.source = "kc_enrichment"
    /\ last' = [op |-> "extract_signals", source |-> last.source, record |-> last.record,
                now |-> last.now, signals |-> ParcelSignals(last.record, last.now)]
    /\ QuietStep

ExtractNext == ExtractSignals \/ ExtractParcelSignals

ExtractSpec == ExtractInit /\ [][ExtractNext]_vars

(***************************************************************************)
(* The properties.                                                         *)
(***************************************************************************)
SameKey(s, t) == s.source = t.source /\ s.source_record_id = t.source_record_id

\* the row of properties that holds address_norm, as a set
RowsOf(address_norm) == {p \in properties : p.address_norm = address_norm}

\* the last call was an upsert_property that met a stored address_norm
LastWasConflict ==
    /\ last.op = "upsert_property"
    /\ last.raised = "none"
    /\ \E p \in RowsOf(last.address_norm) : p.first_seen < last.now

\* C1: no two signal rows share (source, source_record_id); an upsert_signal
\* whose (source, source_record_id) is stored returns false and leaves the
\* signal rows as they are.
C1_SignalKeyUnique ==
    /\ [](\A s, t \in signals : SameKey(s, t) => s = t)
    /\ [][\A property_id \in PropertyIds, key \in SignalKeys, signal_type \in SignalTypes :
            (/\ UniqueViolation(signals, key[1], key[2])
             /\ UpsertSignal(property_id, key, signal_type))
            => (~last'.inserted /\ last'.raised = "none" /\ signals' = signals)]_vars

\* a second upsert_signal on a stored key, with an existing property and
\* another signal_type, has returned false
C1_Witness ==
    /\ last.op = "upsert_signal"
    /\ ~last.inserted
    /\ ~ForeignKeyViolation(properties, last.property_id)
    /\ \E s \in signals : SameKey(s, last) /\ s.signal_type # last.signal_type

\* C2: upsert_property returns the id of the row whose address_norm is the
\* norm it was given, on the insert path and on the conflict path alike.
C2_ReturnsIdOfAddress ==
    (last.op = "upsert_property" /\ last.raised = "none")
        => \E p \in RowsOf(last.address_norm) : p.id = last.id

\* C3: every signal row's property_id is the id of exactly one property row,
\* and that row's address_norm is the normalization of the address of the
\* record the signal came from.
C3_SignalOnItsAddress ==
    \A s \in signals :
        /\ Cardinality({p \in properties : p.id = s.property_id}) = 1
        /\ \A o \in origin : \A p \in properties :
              (o.signal = s.id /\ p.id = s.property_id)
                  => p.address_norm = normalize_address(o.address)

\* C4: no two property rows share address_norm; an upsert_property on a
\* stored address_norm creates no row and keeps every row's id.
C4_AddressNormUnique ==
    /\ [](\A p, q \in properties : p.address_norm = q.address_norm => p = q)
    /\ [][\A a \in PropertyArgs :
            (RowsOf(a.address_norm) # {} /\ UpsertProperty(a))
            => {p.id : p \in properties'} = {p.id : p \in properties}]_vars

\* an upsert_property has met a stored address_norm while another address is
\* stored too
C4_Witness ==
    /\ LastWasConflict
    /\ Cardinality(properties) >= 2

\* C5: a second run over the same remote data, with the same now, inserts no
\* signal row and leaves every property's total_score and tier as they were.
C5_RerunChangesNothing ==
    (pc = "idle" /\ run_no >= 2)
        => /\ signals = run_log.signals_before
           /\ \A p \in properties : \E q \in run_log.properties_before :
                 q.id = p.id /\ q.total_score = p.total_score /\ q.tier = p.tier

\* C6: every property row has at least one signal row that references it.
C6_NoOrphanProperty ==
    \A p \in properties : \E s \in signals : s.property_id = p.id

\* C7: upsert_signal returns false only when (source, source_record_id) is
\* already stored.
C7_FalseOnlyOnKeyCollision ==
    (last.op = "upsert_signal" /\ ~last.inserted)
        => \E s \in signals : SameKey(s, last)

\* C8: upsert_property changes a stored zip_code, latitude or longitude only
\* to the non-null value it was given.
C8_NullKeepsColumns ==
    [][\A p \in properties : \A q \in properties' :
         q.id = p.id =>
           /\ q.zip_code # p.zip_code
                => (last'.op = "upsert_property" /\ q.zip_code # NULL
                    /\ q.zip_code = last'.zip_code)
           /\ q.latitude # p.latitude
                => (last'.op = "upsert_property" /\ q.latitude # None
                    /\ q.latitude = last'.lat)
           /\ q.longitude # p.longitude
                => (last'.op = "upsert_property" /\ q.longitude # None
                    /\ q.longitude = last'.lng)]_vars

\* an upsert_property with a null latitude and a null zip has met a row
\* that holds both
C8_Witness ==
    /\ LastWasConflict
    /\ last.lat = None
    /\ last.zip_code = NULL
    /\ \E p \in RowsOf(last.address_norm) : p.latitude # None /\ p.zip_code # NULL

\* C9: upsert_property changes a stored property_type only to the value it
\* was given, and only when that is not 'unknown'; every upsert_property
\* sets last_updated to its now.
C9_PropertyTypeSticky ==
    /\ [][\A p \in properties : \A q \in properties' :
            (q.id = p.id /\ q.property_type # p.property_type)
              => (/\ last'.op = "upsert_property"
                  /\ q.property_type = last'.property_type
                  /\ q.property_type # "unknown")]_vars
    /\ []((last.op = "upsert_property" /\ last.raised = "none")
            => \E p \in RowsOf(last.address_norm) : p.last_updated = last.now)

\* an upsert_property with 'unknown' has met a row of another property_type,
\* which it kept
C9_Witness ==
    /\ LastWasConflict
    /\ last.property_type = "unknown"
    /\ \E p \in RowsOf(last.address_norm) :
          p.property_type \notin {"unknown", NULL} /\ p.last_updated = last.now

RunClosed ==
    /\ pc = "idle"
    /\ \E r \in pipeline_runs : r.id = run_id /\ r.status = "completed"

\* C10: when a fetcher raises in a run, every source of the list is still
\* run, every property row holds the score the Scorer gives it, and the run
\* is in the end closed with status 'completed'.
C10_ErrorDoesNotStopRun ==
    /\ []((pc = "idle" /\ run_log.errors # {})
            => /\ run_log.started = {FETCHERS[i] : i \in 1..Len(FETCHERS)}
               /\ run_log.rescored
               /\ \A p \in properties :
                     /\ p.total_score = score_property(DB, p.id, Config, clock).total
                     /\ p.tier = score_property(DB, p.id, Config, clock).tier
               /\ RunClosed)
    /\ ((pc # "idle" /\ run_log.errors # {}) ~> RunClosed)

\* a run in which the complaints fetcher raised has been closed, with a
\* signal of the later permits source stored and scored
C10_Witness ==
    /\ RunClosed
    /\ "code_violations" \in run_log.errors
    /\ "permits" \in run_log.finished
    /\ \E s \in signals : \E p \in properties :
          s.source = "permits" /\ p.id = s.property_id /\ p.total_score > 0

\* WHERE ... ABS(latitude - ?) < ? AND ABS(longitude - ?) < ?: q is within
\* the threshold of p on each axis
Near(p, q) ==
    /\ p.latitude # None /\ p.longitude # None
    /\ q.latitude # None /\ q.longitude # None
    /\ Abs(q.latitude[1] - p.latitude[1]) < Threshold
    /\ Abs(q.longitude[1] - p.longitude[1]) < Threshold

\* run_fetcher has just returned for source: main is at the next source, or
\* past the last one
JustFinished(source) ==
    /\ source \in run_log.finished
    /\ \/ pc = "paginate" /\ offset = 0 /\ src_idx > 1 /\ FETCHERS[src_idx - 1] = source
       \/ pc = "rescore" /\ FETCHERS[Len(FETCHERS)] = source

\* C11: when a source has finished, every property with coordinates and a
\* signal of that source that has another property within the threshold has
\* a normalization_issues row that names it and such a neighbour.
C11_AuditLogsNeighbours ==
    \A source \in run_log.finished : JustFinished(source) =>
        \A p \in properties :
            (/\ \E g \in signals : g.property_id = p.id /\ g.source = source
             /\ \E q \in properties : q.id # p.id /\ Near(p, q))
            => \E n \in normalization_issues : \E q \in properties :
                  /\ q.id # p.id /\ Near(p, q)
                  /\ n.address_norm = p.address_norm
                  /\ n.source = source
                  /\ n.nearest_property_id = q.id

\* the signals of a store, each with the address_norm of the property it
\* is attached to
SignalView(d) ==
    {[source |-> g.source, source_record_id |-> g.source_record_id,
      address_norm |-> p.address_norm] :
        <<g, p>> \in {gp \in d.signals \X d.properties : gp[1].property_id = gp[2].id}}

\* an earlier invocation of main was killed: its run row is still 'running'
WasInterrupted ==
    \E r \in pipeline_runs : r.id # run_id /\ r.status = "running"

\* C12: after an interruption between pages the store has no two signals
\* with one key, no two properties with one address_norm and no signal
\* without its property; and when a later run has ended, the signals are
\* those of one uninterrupted run.
C12_InterruptedThenRerun ==
    /\ \A g, h \in signals : SameKey(g, h) => g = h
    /\ \A p, q \in properties : p.address_norm = q.address_norm => p = q
    /\ \A g \in signals : \E p \in properties : p.id = g.property_id
    /\ (RunClosed /\ WasInterrupted)
          => SignalView(DB) = SignalView(main(EmptyDB, FETCHERS, remote, clock))

\* what a store holds apart from row ids and timestamps: the properties by
\* address_norm with their scores, and the signals with their owners
StoreView(d) ==
    [properties |-> {[address_norm |-> p.address_norm, total_score |-> p.total_score,
                      tier |-> p.tier] : p \in d.properties},
     signals |-> SignalView(d)]

\* C13: over the same remote data, the sources taken in one order and in
\* another, in one invocation of main or in one invocation per source,
\* leave the same properties, the same signals on the same addresses and
\* the same total_score and tier.
C13_OrderIrrelevant ==
    (pc = "idle" /\ run_no = 0) =>
        \A o1, o2 \in Orderings :
            /\ StoreView(main(EmptyDB, o1, remote, clock))
                 = StoreView(main(EmptyDB, o2, remote, clock))
            /\ StoreView(RunEach(EmptyDB, o1, remote, 1, clock))
                 = StoreView(RunEach(EmptyDB, o2, remote, 1, clock))

\* a record whose address is missing or normalizes to nothing
Skipped(source, record) ==
    \/ extract_address(source, record) = NoAddress
    \/ normalize_address(extract_address(source, record)) = NoAddress

Unskipped(source, page) == SelectSeq(page, LAMBDA r : ~Skipped(source, r))

\* C14: a page is processed as if its records with a missing address, or
\* with an address that normalizes to nothing, were not in it (no property
\* upsert, no signal from them, the records after them are processed), and
\* each such record adds one to the fetcher's skipped count.
C14_SkippedRecordsOnlyCounted ==
    [][RunPage =>
         LET page == Request(Feed, offset).records
             kept == Unskipped(Source, page)
             st   == ProcessPage([db |-> DB, origin |-> origin,
                                  props_touched |-> fetcher_counts.props_touched,
                                  signals_inserted |-> fetcher_counts.signals_inserted,
                                  skipped |-> 0],
                                 Source, kept, clock)
         IN /\ st.skipped = 0
            /\ properties' = st.db.properties
            /\ signals' = st.db.signals
            /\ sqlite_sequence' = st.db.sqlite_sequence
            /\ fetcher_counts'.props_touched = st.props_touched
            /\ fetcher_counts'.signals_inserted = st.signals_inserted
            /\ fetcher_counts'.skipped
                 = fetcher_counts.skipped + Len(page) - Len(kept)]_vars

\* a page that held a skipped record and, after it, a stored one
C14_Witness ==
    /\ pc = "paginate"
    /\ Source = "permits"
    /\ offset = PageSize
    /\ fetcher_counts.skipped >= 1
    /\ fetcher_counts.props_touched >= 1

SignalsOf(p) == {s \in signals : s.property_id = p.id}

\* the stored scores are those of the last rescore_all
Scored == last.op = "rescore_all"

Dated(s) == s.event_date.kind = "iso"

\* C15: a property all of whose signals carry a date that parses and lies
\* before now - max_age_days is scored total_score = 0 and tier C.
C15_OnlyOldSignalsScoreZero ==
    Scored =>
        \A p \in properties :
            (\A s \in SignalsOf(p) : Dated(s) /\ s.event_date.t < Cutoff(clock))
                => p.total_score = 0 /\ p.tier = "C"

\* two old signals of two sources, scored 0 and C
C15_Witness ==
    /\ Scored
    /\ \E p \in properties :
          /\ Cardinality({s.source : s \in SignalsOf(p)}) >= 2
          /\ \A s \in SignalsOf(p) : Dated(s) /\ s.event_date.t < Cutoff(clock)
          /\ p.total_score = 0
          /\ p.tier = "C"

\* C15 as it is worded: a property with no signal dated after
\* now - max_age_days is scored total_score = 0 and tier C.
C15_NoNewerSignalScoresZero ==
    Scored =>
        \A p \in properties :
            (\A s \in SignalsOf(p) : ~(Dated(s) /\ s.event_date.t > Cutoff(clock)))
                => p.total_score = 0 /\ p.tier = "C"

Without(d, s) == [d EXCEPT !.signals = @ \ {s}]

\* the sources of the signals of p other than s that are not left out
OtherSources(p, s) ==
    {t.source : t \in {u \in SignalsOf(p) \ {s} :
                          ~(Dated(u) /\ u.event_date.t < Cutoff(clock))}}

BonusOf(sources) ==
    IF Cardinality(sources) >= MultiSourceThreshold THEN MultiSourcePoints * ScoreDen ELSE 0

JustInside(s) == s.event_date = IsoDate(Cutoff(clock) + 1)
JustOutside(s) == s.event_date = IsoDate(Cutoff(clock) - 1)

\* C16: a signal dated now - max_age_days + 1 second adds its weight, with
\* the decay of 1824 days of age and its status multiplier, to the total and
\* its source to the distinct sources; a signal dated now - max_age_days
\* - 1 second changes neither total nor tier.
C16_CutoffIsToTheSecond ==
    Scored =>
        \A p \in properties : \A s \in SignalsOf(p) :
            LET without == score_property(Without(DB, s), p.id, Config, clock)
            IN  /\ JustInside(s) =>
                      p.total_score - without.total
                        = Get(Config.signal_weights, s.signal_type, 1)
                            * (DecayBoostDen * MaxAgeDays + DecayBoostNum)
                            * StatusMult(s, Config)
                          + BonusOf(OtherSources(p, s) \cup {s.source})
                          - BonusOf(OtherSources(p, s))
                /\ JustOutside(s) =>
                      p.total_score = without.total /\ p.tier = without.tier

\* a property with a signal a second inside the window that brings the
\* bonus, and a signal of a third source a second outside it
C16_Witness ==
    /\ Scored
    /\ \E p \in properties : \E s, t \in SignalsOf(p) :
          /\ JustInside(s)
          /\ JustOutside(t)
          /\ Cardinality(OtherSources(p, s)) = 1
          /\ s.source \notin OtherSources(p, s)
          /\ t.source \notin OtherSources(p, t)
          /\ p.total_score
               > score_property(Without(DB, s), p.id, Config, clock).total
                   + MultiSourcePoints * ScoreDen

\* the signals of p that are not left out for their age
Counted(p) == {s \in SignalsOf(p) : ~(Dated(s) /\ s.event_date.t < Cutoff(clock))}

SourcesOf(rows) == {s.source : s \in rows}

\* C17: the stored total is the sum of the contributions plus
\* multi_source_points when the signals that are not left out for their age
\* come from at least multi_source_threshold distinct sources, and the bare
\* sum otherwise; exactly multi_source_threshold sources bring the bonus.
C17_BonusIffEnoughCountedSources ==
    Scored =>
        \A p \in properties :
            p.total_score
              = SumContributions(Counted(p), Config, clock)
                  + (IF Cardinality(SourcesOf(Counted(p))) >= MultiSourceThreshold
                     THEN MultiSourcePoints * ScoreDen ELSE 0)

\* exactly multi_source_threshold counted sources, beside a signal that is
\* left out, and the bonus in the total
C17_Witness ==
    /\ Scored
    /\ \E p \in properties :
          /\ Cardinality(SourcesOf(Counted(p))) = MultiSourceThreshold
          /\ Counted(p) # SignalsOf(p)
          /\ p.total_score
               = SumContributions(Counted(p), Config, clock) + MultiSourcePoints * ScoreDen

\* C17 as it is worded: the bonus is in the total exactly when the distinct
\* sources among all the signals of the property number at least
\* multi_source_threshold.
C17_BonusIffEnoughSources ==
    Scored =>
        \A p \in properties :
            p.total_score
              = SumContributions(Counted(p), Config, clock)
                  + (IF Cardinality(SourcesOf(SignalsOf(p))) >= MultiSourceThreshold
                     THEN MultiSourcePoints * ScoreDen ELSE 0)

\* the stored tier is the one the thresholds give the stored total
TierMatchesTotal ==
    \A p \in properties :
        /\ p.tier = "A" <=> p.total_score >= TierA * ScoreDen
        /\ p.tier = "B" <=> (p.total_score >= TierB * ScoreDen
                               /\ p.total_score < TierA * ScoreDen)
        /\ p.tier = "C" <=> p.total_score < TierB * ScoreDen

\* signals of one source that total 7
SevenFromOneSource(p) ==
    /\ Cardinality(SourcesOf(SignalsOf(p))) = 1
    /\ p.total_score = 7 * ScoreDen

\* the score of p once signal t of ScoredSignals is stored on it as well
ScoreWith(p, t) ==
    score_property(upsert_signal(DB, p.id, t.source, "added", t.signal_type, 0,
                                 t.detail, t.event_date, clock).db,
                   p.id, Config, clock)

SecondSource(p) ==
    {ScoredSignals[k] : k \in {i \in DOMAIN ScoredSignals :
                                  ScoredSignals[i].source \notin SourcesOf(SignalsOf(p))}}

\* C18: after rescore_all the stored tier is A from tiers.A on, B from
\* tiers.B on, C below; signals of one source that total 7 give tier C, and
\* with one more signal, of a second source and not left out for its age,
\* the total is 7 plus that signal's own contribution plus the 5 points of
\* the bonus, with the tier of that total (a signal left out leaves 7 and C).
C18_TierFollowsTotal ==
    Scored =>
        /\ TierMatchesTotal
        /\ \A p \in properties :
              SevenFromOneSource(p) =>
                  /\ p.tier = "C"
                  /\ \A t \in SecondSource(p) :
                        LET with == ScoreWith(p, t)
                            old  == Dated(t) /\ t.event_date.t < Cutoff(clock)
                        IN  /\ with.total
                                 = IF old THEN 7 * ScoreDen
                                   ELSE 7 * ScoreDen + Contribution(t, Config, clock)
                                          + MultiSourcePoints * ScoreDen
                            /\ with.tier = "A" <=> with.total >= TierA * ScoreDen
                            /\ with.tier = "C" <=> with.total < TierB * ScoreDen

\* 7 from one source is tier C; a permit of weight 3 from a second source
\* makes it 15 and tier A
C18_Witness ==
    /\ Scored
    /\ \E p \in properties :
          /\ SevenFromOneSource(p)
          /\ p.tier = "C"
          /\ \E t \in SecondSource(p) :
                /\ ScoreWith(p, t).total = 15 * ScoreDen
                /\ ScoreWith(p, t).tier = "A"

\* C18 as it is worded: the same signals plus one from a second source give
\* 12 and tier B.
C18_SecondSourceGivesTwelve ==
    Scored =>
        /\ TierMatchesTotal
        /\ \A p \in properties :
              SevenFromOneSource(p) =>
                  /\ p.tier = "C"
                  /\ \A t \in SecondSource(p) :
                        /\ ScoreWith(p, t).total = 12 * ScoreDen
                        /\ ScoreWith(p, t).tier = "B"

\* p and q are one row but for total_score and tier
SameButScore(p, q) == p = [q EXCEPT !.total_score = p.total_score, !.tier = p.tier]

\* C19: rescore_all changes no signal row and no column of a property other
\* than total_score and tier (no row is added or removed), and run again on
\* what it left, with the same config and now, it changes nothing.
C19_RescoreTwiceIsRescoreOnce ==
    [][RescoreAll =>
          /\ UNCHANGED <<signals, normalization_issues, pipeline_runs, sqlite_sequence>>
          /\ {p.id : p \in properties'} = {p.id : p \in properties}
          /\ Cardinality(properties') = Cardinality(properties)
          /\ \A p \in properties : \E q \in properties' : SameButScore(p, q)
          /\ rescore_all(DB', Config, clock') = DB'
          /\ Scored => UNCHANGED storeVars]_vars

\* rescored, with a property that is not at the 0 and C it was created with
C19_Witness ==
    /\ Scored
    /\ \E p \in properties : p.total_score > 0 /\ p.tier = "A"
    /\ \E p \in properties : SignalsOf(p) = {} /\ p.total_score = 0

RECURSIVE SumOver(_, _)
SumOver(by_source, sources) ==
    IF sources = {} THEN 0
    ELSE Bind(CHOOSE x \in sources : TRUE, LAMBDA source :
         by_source[source] + SumOver(by_source, sources \ {source}))

\* by_source holds, for each source with a signal that score_property does
\* not leave out, the sum of what score_property adds for those signals
AgreesWithScore(property_id, config, by_source) ==
    LET counted == {s \in signals : /\ s.property_id = property_id
                                    /\ ~(Dated(s) /\ s.event_date.t < Cutoff(clock))}
        scored  == score_property(DB, property_id, config, clock)
    IN  /\ DOMAIN by_source = SourcesOf(counted)
        /\ \A source \in DOMAIN by_source :
              by_source[source]
                = SumContributions({s \in counted : s.source = source}, config, clock)
        /\ SumOver(by_source, DOMAIN by_source)
             = scored.total - BonusOf(SourcesOf(counted))

C21_NormalizeIdempotent ==
    last.op = "normalize_again" => last.address_norm = last.address_raw

RECURSIVE Flatten(_)
Flatten(batches) ==
    IF batches = <<>> THEN <<>> ELSE Head(batches) \o Flatten(Tail(batches))

\* paginate has returned or raised
PageOver == pc \in {"done", "raised"}

\* what paginate has requested and yielded so far is in order
PageSafe ==
    LET requests == last.requests
        yielded  == last.yielded
        records  == Feed.records
    IN  \* every record so far once, in :id order
        /\ Flatten(yielded) = SubSeq(records, 1, Len(Flatten(yielded)))
        /\ pc = "done" => Flatten(yielded) = records
        \* non-empty batches of at most a page, only the last one short
        /\ \A i \in 1..Len(yielded) :
              /\ yielded[i] # <<>>
              /\ Len(yielded[i]) <= PageSize
              /\ i < Len(yielded) => Len(yielded[i]) = PageSize
        \* one request per batch, at the offset of the records before it
        /\ \A i \in 1..Len(requests) : requests[i] = (i - 1) * PageSize
        /\ Len(requests) >= Len(yielded)
        \* no request after a short page; one more after a full last page
        /\ (Len(yielded) > 0 /\ Len(yielded[Len(yielded)]) < PageSize)
              => Len(requests) = Len(yielded) /\ pc = "done"
        /\ Len(requests) <= Len(yielded) + 1
        \* an error ends it with nothing yielded of the failed page
        /\ pc = "raised" =>
              /\ Len(requests) = Len(yielded) + 1
              /\ Feed.fail_at = Len(yielded)
              /\ Len(Flatten(yielded)) = Len(yielded) * PageSize

\* C22: against an unchanging dataset paginate ends; it yields the records
\* once each, in :id order, in non-empty batches of at most a page of which
\* only the last may be short; it makes no request after a short page; and
\* a request that fails raises with nothing yielded from it.
C22_PaginateYieldsAllOnce == []PageSafe /\ <>PageOver

\* ended after a full page and a short one, two requests
C22_Witness ==
    /\ pc = "done"
    /\ last.op = "paginate"
    /\ Len(last.yielded) = 2
    /\ Len(last.yielded[2]) < PageSize
    /\ Len(last.requests) = 2
    /\ Flatten(last.yielded) = Feed.records

Extracted(source) == last.op = "extract_signals" /\ last.source = source

\* the signals of a list with this id and this type
Emitted(sigs, id, type) ==
    {i \in DOMAIN sigs : sigs[i].source_record_id = id /\ sigs[i].signal_type = type}

\* C23: a complaints record gives one primary signal under the record id;
\* one more, notice_of_violation under the id with _nov, exactly when the
\* status contains NOTICE OF VIOLATION and the primary type is another; one
\* more, citation under the id with _citation, exactly when the status
\* contains CITATION and the primary type is another; nothing else, and no
\* two signals of the record share an id.
C23_ComplaintSignals ==
    Extracted("code_violations") =>
        LET record  == last.record
            sigs    == last.signals
            id      == IF record.id = NULL THEN "" ELSE record.id
            primary == ComplaintType(record.type_text)
            nov     == Contains(record.status, "NOTICE OF VIOLATION")
                          /\ primary # "notice_of_violation"
            cit     == Contains(record.status, "CITATION") /\ primary # "citation"
        IN  /\ Cardinality({i \in DOMAIN sigs : sigs[i].source_record_id = id}) = 1
            /\ Cardinality(Emitted(sigs, id, primary)) = 1
            /\ Cardinality(Emitted(sigs, id \o "_nov", "notice_of_violation"))
                 = IF nov THEN 1 ELSE 0
            /\ Cardinality(Emitted(sigs, id \o "_citation", "citation"))
                 = IF cit THEN 1 ELSE 0
            /\ Len(sigs) = 1 + (IF nov THEN 1 ELSE 0) + (IF cit THEN 1 ELSE 0)
            /\ Cardinality({sigs[i].source_record_id : i \in DOMAIN sigs})
                 = Len(sigs)

\* a vacant building with a notice of violation and a citation: three
\* signals
C23_Witness ==
    /\ Extracted("code_violations")
    /\ last.record.type_text = "VACANT BUILDING"
    /\ Len(last.signals) = 3
    /\ Emitted(last.signals, "r1_nov", "notice_of_violation") # {}
    /\ Emitted(last.signals, "r1_citation", "citation") # {}
    /\ Emitted(last.signals, "r1", "vacant_building") # {}

\* C24: a permit record gives one signal: demolished when the description
\* contains DEMOLISH or DEMOLITION; else, for status EXPIRED,
\* expired_permit_major when the estimated cost parses and is over 50000 and
\* expired_permit_minor when not; else permit_cancelled for CANCELED; else
\* expired_permit_minor.
C24_PermitSignal ==
    Extracted("permits") =>
        LET record == last.record
            demo   == Contains(record.description, "DEMOLISH")
                        \/ Contains(record.description, "DEMOLITION")
            over   == Len(record.cost) = 1 /\ record.cost[1] > 50000
        IN  /\ Len(last.signals) = 1
            /\ last.signals[1].source_record_id = record.id
            /\ last.signals[1].signal_type
                 = IF demo THEN "demolished"
                   ELSE IF record.status = "EXPIRED"
                        THEN (IF over THEN "expired_permit_major"
                              ELSE "expired_permit_minor")
                   ELSE IF record.status = "CANCELED" THEN "permit_cancelled"
                   ELSE "expired_permit_minor"

\* an expired permit of exactly 50000 is minor
C24_Witness ==
    /\ Extracted("permits")
    /\ last.record.status = "EXPIRED"
    /\ last.record.cost = Some(MajorCost)
    /\ last.record.description = "NEW DECK"
    /\ last.signals[1].signal_type = "expired_permit_minor"

\* ---- RecentSalesFetcher.paginate against a site that answers anything ----
ZipResponses(zip) ==
    { Raises,
      Response(429, "csv", <<[zip |-> zip, n |-> 1]>>),
      Response(200, "", <<>>),
      Response(200, "<!", <<>>),
      Response(200, "{", <<>>),
      Response(200, "csv", <<[zip |-> "98168", n |-> 1]>>),
      Response(200, "csv", <<[zip |-> zip, n |-> 1], [zip |-> "98168", n |-> 2]>>) }

ZipInit ==
    /\ Quiet
    /\ \E site \in [DOMAIN WEST_SEATTLE_ZIPS -> UNION {ZipResponses(WEST_SEATTLE_ZIPS[i]) :
                                                       i \in DOMAIN WEST_SEATTLE_ZIPS}] :
         /\ \A i \in DOMAIN site : site[i] \in ZipResponses(WEST_SEATTLE_ZIPS[i])
         /\ last = [op |-> "zip", site |-> site, at |-> 1, requests |-> <<>>,
                    yielded |-> <<>>, sleeps |-> 0]

\* _fetch_zip raises
ZipFails ==
    /\ last.op = "zip"
    /\ fetch_zip(last.site[last.at]).raised
    /\ last' = [last EXCEPT !.op = OnZipError(AfterZip(last.at)),
                            !.at = @ + 1,
                            !.requests = Append(@, WEST_SEATTLE_ZIPS[last.at])]
    /\ QuietStep

\* `if records:` is false, then the delay
ZipNothing ==
    /\ last.op = "zip"
    /\ \E got \in {fetch_zip(last.site[last.at])} :
         /\ ~got.raised
         /\ got.records = <<>>
    /\ last' = [last EXCEPT !.op = AfterZip(last.at),
                            !.at = @ + 1,
                            !.requests = Append(@, WEST_SEATTLE_ZIPS[last.at]),
                            !.sleeps = @ + 1]
    /\ QuietStep

\* `yield records`, then the delay
ZipYields ==
    /\ last.op = "zip"
    /\ \E got \in {fetch_zip(last.site[last.at])} :
         /\ ~got.raised
         /\ got.records # <<>>
         /\ last' = [last EXCEPT !.op = AfterZip(last.at),
                                 !.at = @ + 1,
                                 !.requests = Append(@, WEST_SEATTLE_ZIPS[last.at]),
                                 !.yielded = Append(@, [zip |-> WEST_SEATTLE_ZIPS[last.at],
                                                        records |-> got.records]),
                                 !.sleeps = @ + 1]
    /\ QuietStep

ZipNext == ZipFails \/ ZipNothing \/ ZipYields

ZipSpec == ZipInit /\ [][ZipNext]_vars /\ WF_vars(ZipNext)

\* ---- KCEnrichmentFetcher.paginate and its consumer, a run that may pass
\* ---- midnight ----
KcToday == Date(2026, 11, 15)
NextDay(date) == Date(date.y, date.m, date.d + 1)

\* parcels: nothing to report; in-state owner in Seattle sold 365 days ago;
\* sold 3652 days ago; sold in 2010; never sold
KcParcels ==
    LET parcel(mailing, sale) ==
            [address |-> AddrA1, zip |-> "98106", land_val |-> 100, impr_val |-> 31,
             mailing |-> mailing, sale |-> sale]
        seattle == Mailing("WA", "SEATTLE")
        sold(y, m, d) == Sale(SaleDate("mdy", Date(y, m, d)), 450000)
    IN  { parcel(seattle, sold(2021, 11, 15)),
          parcel(seattle, sold(2025, 11, 15)),
          parcel(seattle, sold(2016, 11, 15)),
          parcel(seattle, sold(2010, 1, 1)),
          parcel(NoMailing, NoSale) }

Pin(i) == <<"0000000001", "0000000002", "0000000003", "0000000004", "0000000005">>[i]

\* _enrich(pin, parcel)
enrich(pin, parcel) ==
    [pin |-> pin, address |-> parcel.address, zip |-> parcel.zip,
     land_val |-> parcel.land_val, impr_val |-> parcel.impr_val,
     mailing |-> parcel.mailing, sale |-> parcel.sale, in_foreclosure |-> FALSE]

KcInit ==
    /\ Quiet
    /\ \E n \in 0..MaxParcels : \E parcels \in [1..n -> KcParcels] :
         last = [op |-> "paginate", parcels |-> parcels, at |-> 1, batch |-> <<>>,
                 yielded |-> <<>>, dropped |-> <<>>, pending |-> <<>>,
                 extracted |-> <<>>, now |-> KcToday]

\* one turn of `for pin, parcel in self._parcels.items()`
KcParcel ==
    /\ last.op = "paginate"
    /\ last.at <= Len(last.parcels)
    /\ \E record \in {enrich(Pin(last.at), last.parcels[last.at])} :
         IF has_signals(record, last.now)
         THEN \E batch \in {Append(last.batch, [record |-> record, checked |-> last.now])} :
                IF Len(batch) >= BatchSize
                THEN last' = [last EXCEPT !.at = @ + 1, !.batch = <<>>,
                                          !.yielded = Append(@, batch),
                                          !.pending = batch, !.op = "consume"]
                ELSE last' = [last EXCEPT !.at = @ + 1, !.batch = batch]
         ELSE last' = [last EXCEPT !.at = @ + 1,
                                   !.dropped = Append(@, [record |-> record,
                                                          checked |-> last.now])]
    /\ QuietStep

\* after the loop: `if batch: yield batch`
KcLastBatch ==
    /\ last.op = "paginate"
    /\ last.at > Len(last.parcels)
    /\ IF last.batch # <<>>
       THEN last' = [last EXCEPT !.batch = <<>>, !.yielded = Append(@, last.batch),
                                 !.pending = last.batch, !.op = "consume"]
       ELSE last' = [last EXCEPT !.op = "done"]
    /\ QuietStep

\* the consumer of a batch: extract_signals(record) for its next record, and
\* paginate goes on after the last
KcExtract ==
    /\ last.op = "consume"
    /\ \E item \in {Head(last.pending)} :
         last' = [last EXCEPT
                    !.pending = Tail(@),
                    !.extracted = Append(@, [record |-> item.record,
                                             checked |-> item.checked,
                                             now |-> last.now,
                                             signals |-> ParcelSignals(item.record, last.now)]),
                    !.op = IF Len(last.pending) > 1 THEN "consume" ELSE "paginate"]
    /\ QuietStep

\* midnight passes: datetime.now() is a day later from here on
KcMidnight ==
    /\ last.op \in {"paginate", "consume"}
    /\ last.now = KcToday
    /\ last' = [last EXCEPT !.now = NextDay(@)]
    /\ QuietStep

KcNext == KcParcel \/ KcLastBatch \/ KcExtract \/ KcMidnight

KcSpec == KcInit /\ [][KcNext]_vars

\* ---- _load_sales over a file of sale rows ----
DocumentDates == {Date(1999, 12, 31), Date(2010, 6, 15), Date(2020, 1, 1)}

SaleRows ==
    {[pin |-> pin, DocumentDate |-> text, SalePrice |-> 450000] :
        pin \in WsPins,
        text \in {DocumentDate(date) : date \in DocumentDates} \cup {NoDocumentDate}}
    \cup {[pin |-> "9999990000", DocumentDate |-> DocumentDate(Date(2020, 1, 1)),
           SalePrice |-> 450000]}

SalesInit ==
    /\ Quiet
    /\ \E n \in 0..MaxRecords : \E rows \in [1..n -> SaleRows] :
         last = [op |-> "load_sales", rows |-> rows, rows_read |-> 0,
                 sales |-> [pin \in WsPins |-> NoRetainedSale]]

\* one turn of `for row in reader`
LoadSales ==
    /\ last.op = "load_sales"
    /\ last.rows_read < Len(last.rows)
    /\ last' = [last EXCEPT !.rows_read = @ + 1,
                            !.sales = LoadSalesRow(@, last.rows[last.rows_read + 1])]
    /\ QuietStep

SalesNext == LoadSales
SalesSpec == SalesInit /\ [][SalesNext]_vars

\* the signal types emitted under the parcel's kc-longterm- id
LongTerm(sigs) ==
    {sigs[i].signal_type : i \in {j \in DOMAIN sigs :
        sigs[j].signal_type \in {"long_term_owner_10yr", "long_term_owner_20yr"}}}

YearsBefore(now, years) == Date(now.y - years, now.m, now.d)

\* C25: a last sale dated 10 calendar years before now to the day gives
\* long_term_owner_10yr, one dated 20 calendar years before now gives
\* long_term_owner_20yr, and a sale of any age gives at most one of the two.
C25_LongTermAtAnniversary ==
    (Extracted("kc_enrichment") /\ last.record.sale.present) =>
        LET last_date == last.record.sale.last_date
            long_term == LongTerm(last.signals)
        IN  /\ (last_date.kind \in {"mdy", "iso"}
                  /\ last_date.date = YearsBefore(last.now, 10))
                 => long_term = {"long_term_owner_10yr"}
            /\ (last_date.kind \in {"mdy", "iso"}
                  /\ last_date.date = YearsBefore(last.now, 20))
                 => long_term = {"long_term_owner_20yr"}
            /\ Cardinality({i \in DOMAIN last.signals :
                               last.signals[i].signal_type
                                 \in {"long_term_owner_10yr", "long_term_owner_20yr"}}) <= 1

\* the date a DocumentDate text stands for
ParseDocumentDate(text) ==
    Date((text[7] - 48) * 1000 + (text[8] - 48) * 100 + (text[9] - 48) * 10 + (text[10] - 48),
         (text[1] - 48) * 10 + (text[2] - 48),
         (text[4] - 48) * 10 + (text[5] - 48))

\* the dated rows of one PIN
RowsOfPin(rows, pin) ==
    {i \in DOMAIN rows : rows[i].pin = pin /\ rows[i].DocumentDate # NoDocumentDate}

\* C26: once _load_sales has read all the rows, the sale retained for a PIN
\* carries the chronologically latest DocumentDate among that PIN's rows.
C26_LatestSaleRetained ==
    (last.op = "load_sales" /\ last.rows_read = Len(last.rows)) =>
        \A pin \in WsPins :
            LET dated == RowsOfPin(last.rows, pin)
            IN  /\ last.sales[pin].present <=> dated # {}
                /\ \A i \in dated :
                     DaysFromCivil(ParseDocumentDate(last.rows[i].DocumentDate))
                       <= DaysFromCivil(ParseDocumentDate(last.sales[pin].last_date))

\* the zip codes whose answer is a 200 with CSV rows of West Seattle
GoodZips(site) ==
    {i \in DOMAIN site :
        /\ ~site[i].raises
        /\ site[i].status_code = 200
        /\ site[i].text = "csv"
        /\ \E j \in DOMAIN site[i].rows : site[i].rows[j].zip = WEST_SEATTLE_ZIPS[i]}

ZipSafe ==
    last.op \in {"zip", "done"} =>
        /\ last.requests = SubSeq(WEST_SEATTLE_ZIPS, 1, last.at - 1)
        /\ Len(last.yielded) = Cardinality({i \in GoodZips(last.site) : i < last.at})
        /\ \A k \in DOMAIN last.yielded :
             /\ \E i \in GoodZips(last.site) : WEST_SEATTLE_ZIPS[i] = last.yielded[k].zip
             /\ \A j \in DOMAIN last.yielded[k].records :
                  last.yielded[k].records[j].zip = last.yielded[k].zip

ZipOver == last.op = "done" /\ last.requests = WEST_SEATTLE_ZIPS

\* C27: paginate never raises; it requests every zip code of the whitelist
\* once, in order, and a zip code whose request fails, is refused or has no
\* CSV body yields nothing while the zip codes after it are still requested.
C27_EveryZipRequestedOnce == [](last.op # "raised" /\ ZipSafe) /\ <>ZipOver

\* a run in which a zip code failed and a later one yielded its records
C27_Witness ==
    /\ last.op = "done"
    /\ last.site[1].raises
    /\ last.site[2].status_code = 429
    /\ last.site[3].text = "<!"
    /\ Len(last.yielded) = 2

\* the records of the batches, in the order they were yielded
YieldedRecords == Flatten(last.yielded)

\* every batch holds at most BatchSize records, and only the last one yielded
\* may hold fewer
BatchesFull ==
    \A k \in DOMAIN last.yielded :
        /\ last.yielded[k] # <<>>
        /\ Len(last.yielded[k]) <= BatchSize
        /\ (k < Len(last.yielded) \/ last.at <= Len(last.parcels))
             => Len(last.yielded[k]) = BatchSize

\* every parcel looked at is in the batches or the batch being filled when
\* _has_signals held and dropped otherwise, each once
YieldedOnce ==
    LET kept == YieldedRecords \o last.batch
    IN  /\ Len(kept) + Len(last.dropped) = last.at - 1
        /\ \A i, j \in DOMAIN kept : kept[i].record.pin = kept[j].record.pin => i = j
        /\ \A i \in DOMAIN kept : has_signals(kept[i].record, kept[i].checked)
        /\ \A i \in DOMAIN last.dropped :
             ~has_signals(last.dropped[i].record, last.dropped[i].checked)

HasIffEmits(record, now) == has_signals(record, now) <=> ParcelSignals(record, now) # <<>>

DecayOne == DecayBoostDen * MaxAgeDays
DecayTop == (DecayBoostDen + DecayBoostNum) * MaxAgeDays

\* C29: the multiplier applied to a signal whose date parses and is not
\* before the cutoff lies between 1.0 and 1 + decay_boost, and is
\* 1 + decay_boost at age 0: the score of a property with that one signal is
\* weight * status_mult times a multiplier in that range.
C29_DecayWithinBounds ==
    last.op = "score_property" =>
        \A s \in {r \in signals : r.property_id = 1} :
            (s.event_date.kind = "iso" /\ ~TooOld(s, last.now)) =>
                LET unit == Get(Config.signal_weights, s.signal_type, 1)
                              * StatusMult(s, Config)
                IN  /\ unit * DecayOne <= last.total
                    /\ last.total <= unit * DecayTop
                    /\ s.event_date.t = last.now => last.total = unit * DecayTop

\* the records of a source that run_fetcher goes through in a run: those of
\* the pages before the request that raises, all of them when none does
RecordsRead(feed) ==
    IF feed.fail_at >= 0 /\ feed.fail_at * PageSize <= Len(feed.records)
    THEN SubSeq(feed.records, 1, feed.fail_at * PageSize)
    ELSE feed.records

\* the calls of upsert_property in a run, over the sources from index i on
RECURSIVE UpsertsFrom(_)
UpsertsFrom(i) ==
    IF i > Len(FETCHERS) THEN 0
    ELSE Len(Unskipped(FETCHERS[i], RecordsRead(remote[FETCHERS[i]]))) + UpsertsFrom(i + 1)

\* C30: when a run is closed, its row's signals_count is the number of
\* signal rows the run inserted and its properties_count the number of
\* upsert_property calls the run made.
C30_RunCountsMatchStore ==
    RunClosed =>
        \A r \in pipeline_runs : r.id = run_id =>
            /\ r.signals_count = Some(Cardinality(signals \ run_log.signals_before))
            /\ r.properties_count = Some(UpsertsFrom(1))

====
